---- MODULE Spec2Model ----
(***************************************************************************)
(* Verification model of the retrieval engine of                           *)
(* crypto-related-python-apis: the Timer rate limiter                      *)
(* (helperclass_timer.py), the single-call executors                       *)
(* (__make_one_api_call of the Moralis, Tatum and OpenSea classes) and the *)
(* cursor and offset pagination drivers (__get_full_data_set_from_api),    *)
(* the PercentTracker (helpers/class_percent_tracker.py) and the bulk      *)
(* retry loop of SeleniumOnOpensea (class_selenium_opensea.py).            *)
(*                                                                         *)
(* Time is counted in clock ticks; one second is TicksPerSecond ticks.     *)
(* time.time() is the variable now, which never runs backwards.            *)
(***************************************************************************)
EXTENDS Integers, Sequences, FiniteSets, TLC

(* ------------------------------ bounds --------------------------------- *)

\* Resolution of the model clock: ticks per second.
TicksPerSecond == 4

\* time.time() when the model starts (the epoch clock is far from 0).
ClockStart == 6

\* The clock is followed up to this tick.
MaxTime == 10

\* Largest delay, in ticks, by which time.sleep() oversleeps, by which the
\* reading of the clock in reset() lags behind the end of the wait, or that
\* one network request takes.
MaxLag == 1

\* Largest number of calls one run of a pagination driver is followed for.
MaxCalls == 3

\* Largest number of records in one page of a provider's response.
MaxPage == 2

\* Largest number of wait_until_allowed(include_reset=True) calls one Timer
\* is followed for.
MaxWaits == 6

\* A PercentTracker is followed for every total up to this one (and for the
\* total 100).
MaxTotal == 6

\* Largest number of token ids get_many_nfts_properties is called with.
MaxItems == 3

(* --------------------------- program constants ------------------------- *)

\* num_items_per_page of __get_full_data_set_from_api (default, never
\* overridden by a caller).
NumItemsPerPage == 50

\* int_output_every_x_percent of PercentTracker.__init__ (default).
PrintEveryXPercent == 10

\* int_output_every_x_percent of the PercentTracker that
\* get_many_nfts_properties builds.
BulkEveryXPercent == 5

\* The estimate of the time remaining is logged in seconds below this many
\* seconds and in minutes of this many seconds from there on.
SecondsPerMinute == 60

\* The bound of attempt_number in the while loop of
\* get_many_nfts_properties.
MaxAttempts == 3

VARIABLES
    now,            \* time.time(), in ticks
    timer,          \* the Timer: [start_time, limit_as_decimal]
    permits,        \* history: the clock at the return of each gated wait
    lastwait,       \* history: what the last wait_until_allowed did
    cls,            \* the API class this session is an instance of
    lastcall,       \* history: the last __make_one_api_call, its input and outcome
    pc,             \* the pagination driver: "idle", "loop", "returned", "raised"
    params,         \* dict_api_query_parameters of the running driver
    full_data_set,  \* full_data_set of the running driver
    is_first,       \* is_first_loop_iteration of the cursor driver
    percent_tracker,\* percent_tracker of the cursor driver
    calls,          \* history: the query parameters of each call of the run
    responses,      \* history: what the provider answered to each call
    result,         \* what the driver returned (or the exception it raised)
    construction,   \* how Timer(rate_limit) went: the rate and what it raised
    progress,       \* history: the update_progress calls made on the tracker
    browser,        \* self.driver of SeleniumOnOpensea: "class", "open", "closed"
    bulk,           \* get_many_nfts_properties: its position and its locals
    attempts,       \* history: the get_an_nfts_properties calls and their outcome
    headers,        \* self.__sesh.headers: a set of <<name, value>>
    lastop,         \* the public method last called (or running) and its outcome
    page_size       \* self.__page_size, as the instance was constructed

vars == <<now, timer, permits, lastwait, cls, lastcall, pc, params,
          full_data_set, is_first, percent_tracker, calls, responses, result,
          construction, progress, browser, bulk, attempts, headers, lastop,
          page_size>>

driverVars == <<pc, params, full_data_set, is_first, percent_tracker,
                calls, responses, result>>

seleniumVars == <<browser, bulk, attempts>>

apiVars == <<headers, lastop, page_size>>

(* ------------------------------- Timer --------------------------------- *)

\* The rates (calls per second) a Timer is built with: the positive rates
\* whose interval is a whole number of ticks.
Rates == {r \in 1..TicksPerSecond : TicksPerSecond % r = 0}

\* The rates Timer(rate_limit) is called with when the caller's value is
\* not checked: the rates above, their negatives and zero.
AnyRates == Rates \cup {-r : r \in Rates} \cup {0}

\* 1 / rate_limit in ticks, for a rate that is not zero: Python's true
\* division gives a negative interval for a negative rate.
Interval(rate_limit) ==
    IF rate_limit > 0 THEN TicksPerSecond \div rate_limit
                      ELSE -(TicksPerSecond \div (-rate_limit))

\* Timer.__init__: start_time = 0, __limit_as_decimal = 1 / rate_limit.
Timer_init(rate_limit) ==
    [start_time |-> 0, limit_as_decimal |-> Interval(rate_limit)]

\* No Timer object.
NoTimer == [start_time |-> 0, limit_as_decimal |-> 0]

\* The statement Timer(rate_limit): 1 / 0 raises ZeroDivisionError and no
\* object is built; every other rate, negative ones included, builds one.
Timer_new(rate_limit) ==
    IF rate_limit = 0
    THEN [raised |-> "ZeroDivisionError", timer |-> NoTimer]
    ELSE [raised |-> "", timer |-> Timer_init(rate_limit)]

\* The values of construction: before Timer(rate_limit) is called, after it
\* built a Timer, after it raised.
NotConstructed == [state |-> "none", rate_limit |-> 0, raised |-> ""]
Built(rate_limit) == [state |-> "built", rate_limit |-> rate_limit, raised |-> ""]
Refused(rate_limit, exc) == [state |-> "raised", rate_limit |-> rate_limit, raised |-> exc]

Timer_reset_to_epoch(tm, t) == [tm EXCEPT !.start_time = 0]

\* Timer.reset read at clock t: start_time = time.time().
Timer_reset(tm, t) == [tm EXCEPT !.start_time = t]

\* The time wait_until_allowed sleeps when it reads the clock at t:
\* limit - elapsed when elapsed < limit, else nothing.
SleepTime_full_interval(tm, t) ==
    IF t - tm.start_time < tm.limit_as_decimal
    THEN tm.limit_as_decimal ELSE 0

SleepTime(tm, t) ==
    IF t - tm.start_time < tm.limit_as_decimal
    THEN tm.limit_as_decimal - (t - tm.start_time) ELSE 0

\* Timer.wait_until_allowed called at clock t. lag is the time by which the
\* sleep overshoots plus the time until reset() reads the clock. The result
\* is the Timer and the clock when the method returns.
Timer_wait_reset_first(tm, t, include_reset, lag) ==
    LET slept == SleepTime(tm, t)
        done  == t + slept + lag
    IN [timer |-> IF include_reset THEN Timer_reset(tm, t) ELSE tm,
        now   |-> done,
        slept |-> slept]

Timer_wait_until_allowed(tm, t, include_reset, lag) ==
    LET slept == SleepTime(tm, t)
        done  == t + slept + lag
    IN [timer |-> IF include_reset THEN Timer_reset(tm, done) ELSE tm,
        now   |-> done,
        slept |-> slept]

NoWait == [at |-> 0, slept |-> 0, include_reset |-> FALSE, before |-> 0, kind |-> "none"]

\* The caller spends one tick between two calls.
Tick ==
    /\ now < MaxTime
    /\ now' = now + 1
    /\ UNCHANGED <<timer, permits, lastwait, cls, lastcall>>
    /\ UNCHANGED apiVars
    /\ UNCHANGED driverVars
    /\ UNCHANGED <<construction, progress>>
    /\ UNCHANGED seleniumVars

\* A caller evaluates Timer(rate_limit) with some rate.
Timer_construct ==
    /\ construction.state = "none"
    /\ \E rate_limit \in AnyRates :
          \E r \in {Timer_new(rate_limit)} :
             /\ timer' = r.timer
             /\ construction' = IF r.raised = "" THEN Built(rate_limit)
                                 ELSE Refused(rate_limit, r.raised)
    /\ UNCHANGED <<now, permits, lastwait, cls, lastcall, progress>>
    /\ UNCHANGED apiVars
    /\ UNCHANGED driverVars
    /\ UNCHANGED seleniumVars

\* A caller calls timer.reset().
Reset ==
    /\ construction.state = "built"
    /\ timer' = Timer_reset(timer, now)
    /\ lastwait' = [at |-> now, slept |-> 0, include_reset |-> FALSE,
                    before |-> timer.start_time, kind |-> "reset"]
    /\ UNCHANGED <<now, permits, cls, lastcall>>
    /\ UNCHANGED apiVars
    /\ UNCHANGED driverVars
    /\ UNCHANGED <<construction, progress>>
    /\ UNCHANGED seleniumVars

\* A caller calls timer.wait_until_allowed(include_reset).
WaitUntilAllowed ==
    \E include_reset \in BOOLEAN, lag \in 0..MaxLag :
        LET w == Timer_wait_until_allowed(timer, now, include_reset, lag)
        IN /\ construction.state = "built"
           /\ w.now <= MaxTime
           /\ include_reset => Len(permits) < MaxWaits
           /\ timer' = w.timer
           /\ now' = w.now
           /\ permits' = IF include_reset THEN Append(permits, w.now) ELSE permits
           /\ lastwait' = [at |-> now, slept |-> w.slept,
                           include_reset |-> include_reset,
                           before |-> timer.start_time, kind |-> "wait"]
           /\ UNCHANGED <<cls, lastcall>>
           /\ UNCHANGED apiVars
           /\ UNCHANGED driverVars
           /\ UNCHANGED <<construction, progress>>
           /\ UNCHANGED seleniumVars

NoCall == [call_type |-> "none", kind |-> "none"]
NoTracker == [exists |-> FALSE, max_loop_number |-> 0, percent_counter |-> 0,
              every_x_percent |-> 0, start_time |-> 0]

\* progress before any update_progress call. fed is n when the calls so far
\* passed the counts 1, 2, ..., n in this order and -1 when they did not;
\* emitted counts the calls that logged the progress; last is the last call.
NoEta == [shown |-> FALSE, unit |-> "", value |-> 0]
NoUpdate == [kind |-> "none", counter |-> 0, emitted |-> FALSE, raised |-> "",
             before |-> 0, show |-> FALSE, elapsed |-> 0, eta |-> NoEta]
NoProgress == [fed |-> 0, emitted |-> 0, last |-> NoUpdate]

\* get_many_nfts_properties not called yet.
BulkIdle ==
    [pc |-> "idle", input |-> <<>>, token_ids |-> <<>>, pos |-> 0,
     list_for_success_tracking |-> <<>>, list_results |-> <<>>,
     counter |-> 0, attempt_number |-> 0, returned |-> <<>>]

\* SeleniumOnOpensea.__init__: self.driver = webdriver.Firefox, the class
\* and not a browser session.
SeleniumIdle ==
    /\ browser = "class"
    /\ bulk = BulkIdle
    /\ attempts = <<>>
NoResult == [kind |-> "none", data |-> <<>>, exc |-> ""]

\* No public method of an API class called yet.
NoOp == [op |-> "none", state |-> "none", raised |-> "", ret |-> "",
         testnet |-> "", before |-> {}, sent |-> {}, failure |-> "",
         n |-> 0, counter |-> 0, delay |-> 0, waited |-> 0,
         issued |-> <<>>, entries |-> <<>>, log_counter |-> FALSE]

\* No requests session: the session is not an instance of an API class.
SessionIdle ==
    /\ headers = {}
    /\ lastop = NoOp

DriverIdle ==
    /\ pc = "idle"
    /\ params = [has_cursor |-> FALSE, cursor |-> "", offset |-> 0, limit |-> 0,
                 pageSize |-> 0]
    /\ full_data_set = <<>>
    /\ is_first = TRUE
    /\ percent_tracker = NoTracker
    /\ calls = <<>>
    /\ responses = <<>>
    /\ result = NoResult

\* A Timer just built with some positive rate, not yet reset.
InitTimer ==
    /\ now = ClockStart
    /\ \E r \in Rates : timer = Timer_init(r) /\ construction = Built(r)
    /\ permits = <<>>
    /\ lastwait = NoWait
    /\ cls = "Timer"
    /\ lastcall = NoCall
    /\ DriverIdle
    /\ progress = NoProgress
    /\ SeleniumIdle
    /\ SessionIdle
    /\ page_size = NumItemsPerPage

NextTimer == Tick \/ Reset \/ WaitUntilAllowed

SpecTimer == InitTimer /\ [][NextTimer]_vars

\* Before Timer(rate_limit) is evaluated, with a rate nothing has checked.
InitConstruct ==
    /\ now = ClockStart
    /\ timer = NoTimer
    /\ construction = NotConstructed
    /\ permits = <<>>
    /\ lastwait = NoWait
    /\ cls = "Timer"
    /\ lastcall = NoCall
    /\ DriverIdle
    /\ progress = NoProgress
    /\ SeleniumIdle
    /\ SessionIdle
    /\ page_size = NumItemsPerPage

NextConstruct == Timer_construct \/ Tick \/ Reset \/ WaitUntilAllowed

SpecConstruct == InitConstruct /\ [][NextConstruct]_vars

(* --------------------------- Python values ----------------------------- *)

\* The values a decoded payload takes. One record shape for all of them:
\* kind says which Python type it is; a dict has the keys in keys, with
\* total, items (the key 'result') and cursor their values.
PyNone == [kind |-> "None", items |-> <<>>, keys |-> {}, total |-> 0,
           cursor |-> "", num |-> 0, raw |-> ""]
PyList(items) == [PyNone EXCEPT !.kind = "list", !.items = items]
PyDict(keys, total, items, cursor) ==
    [PyNone EXCEPT !.kind = "dict", !.keys = keys, !.total = total,
                   !.items = items, !.cursor = cursor]
PyInt(n) == [PyNone EXCEPT !.kind = "int", !.num = n]
PyBytes(raw) == [PyNone EXCEPT !.kind = "bytes", !.raw = raw]

\* Python's truth value of a payload (if one_page_data: ...).
Truthy(v) ==
    CASE v.kind = "None"  -> FALSE
      [] v.kind = "list"  -> v.items # <<>>
      [] v.kind = "dict"  -> v.keys # {}
      [] v.kind = "int"   -> v.num # 0
      [] v.kind = "bytes" -> v.raw # ""

(* ------------------------- responses on the wire ----------------------- *)

\* A response body: raw is its text (raw_response.content), valid_json says
\* whether json.loads accepts it and doc is the value json.loads gives.
Body(raw, valid_json, doc) == [raw |-> raw, valid_json |-> valid_json, doc |-> doc]

EmptyBody == Body("", FALSE, PyNone)
GarbageBody == Body("<html>Bad Gateway</html>", FALSE, PyNone)
JsonBody(doc) == Body("<json>", TRUE, doc)

\* json.loads: the document a body encodes, or a raised JSONDecodeError.
JsonLoads(body) ==
    IF body.valid_json
    THEN [raised |-> "", value |-> body.doc]
    ELSE [raised |-> "JSONDecodeError", value |-> PyNone]

\* Values of the Content-Type header; NoHeader: the response has none.
NoHeader == "<no Content-Type header>"
JsonTypes == {"application/json", "application/json; charset=utf-8"}
TextTypes == {"text/plain"}
OtherTypes == {"text/html"}
ContentTypes == JsonTypes \cup TextTypes \cup OtherTypes \cup {NoHeader}

\* What the network operation does: it raises (connect error, timeout, DNS
\* failure) or a response arrives.
TransportError == [kind |-> "exception", body |-> EmptyBody, ctype |-> NoHeader]
Response(body, ctype) == [kind |-> "response", body |-> body, ctype |-> ctype]

(* ----------------------------- API classes ----------------------------- *)

Moralis    == "src/class_api_interactions_moralis.py"
MoralisPkg == "src/api_interaction_classes/class_api_interactions_moralis.py"
Tatum      == "src/class_api_interactions_tatum.py"
TatumPkg   == "src/api_interaction_classes/class_api_interactions_tatum.py"
Opensea    == "src/api_interaction_classes/class_api_interactions_opensea.py"

Classes == {Moralis, MoralisPkg, Tatum, TatumPkg, Opensea}
CursorClasses == {Moralis, MoralisPkg}
OffsetClasses == {Tatum, TatumPkg}

\* Whether __init__ builds a Timer and __make_one_api_call waits on it. The
\* Tatum class of api_interaction_classes has none ("NEED SOMETHING HERE FOR
\* SPEED THROTTLING").
HasTimer(c) == c # TatumPkg

\* __reset_headers, as __init__ calls it: the headers of the session are
\* the class's default headers and, but for Opensea, the API key.
TatumRequestHeaders ==
    {<<"Accept", "text/html">>, <<"Accept-Language", "en-US,en;q=0.5">>,
     <<"User-Agent", "Mozilla/5.0">>}
Class_headers(c) ==
    CASE c \in OffsetClasses -> TatumRequestHeaders \cup {<<"x-api-key", "<key>">>}
      [] c \in CursorClasses -> {<<"Accept", "application/json">>,
                                 <<"x-api-key", "<key>">>}
      [] OTHER -> {<<"Accept", "application/json">>}

\* __init__: Timer(rate_limit=rate_limit) and then __timer.reset().
Class_init(c, rate_limit, t) ==
    IF HasTimer(c) THEN Timer_reset(Timer_init(rate_limit), t) ELSE NoTimer

(* --------------------------- __make_one_api_call ----------------------- *)

CallTypes == {"get", "post", "put", "delete", "patch", "GET"}

\* __organize_api_call_method_and_arguments: the requests method for the
\* call type, or the empty dict (and a logged error) for any other one.
Organize_falls_back_to_get(call_type) ==
    IF call_type \in {"post", "put", "delete"}
    THEN [ok |-> TRUE, method |-> call_type, logs |-> <<>>]
    ELSE [ok |-> TRUE, method |-> "get", logs |-> <<>>]

Organize_api_call_method_and_arguments(call_type) ==
    IF call_type \in {"get", "post", "put", "delete"}
    THEN [ok |-> TRUE, method |-> call_type, logs |-> <<>>]
    ELSE [ok |-> FALSE, method |-> "", logs |-> <<"error: unexpected call type">>]

\* try: raw_response = api_method(...) except Exception: log, return.
Send_request_uncaught(net) ==
    IF net.kind = "exception"
    THEN [arrived |-> FALSE, raised |-> "RequestException", logs |-> <<>>]
    ELSE [arrived |-> TRUE, raised |-> "", logs |-> <<>>]

Send_request(net) ==
    IF net.kind = "exception"
    THEN [arrived |-> FALSE, raised |-> "",
          logs |-> <<"warning: something went wrong while retrieving data">>]
    ELSE [arrived |-> TRUE, raised |-> "", logs |-> <<>>]

\* The decoding of a non-empty body by every executor but TatumPkg's:
\* json.loads in a try, whatever the content type.
Decode_json_in_try(body, ctype) ==
    LET j == JsonLoads(body)
    IN IF j.raised = ""
       THEN [ret |-> j.value, raised |-> "", logs |-> <<>>]
       ELSE [ret |-> PyNone, raised |-> "",
             logs |-> <<"warning: something went wrong while extracting">>]

\* The decoding of a non-empty body by TatumPkg's executor: by content
\* type, json.loads outside any try; headers['Content-Type'] of a response
\* without that header raises KeyError.
Decode_by_content_type(body, ctype) ==
    CASE ctype = NoHeader ->
            [ret |-> PyNone, raised |-> "KeyError", logs |-> <<>>]
      [] ctype \in JsonTypes ->
            LET j == JsonLoads(body)
            IN [ret |-> j.value, raised |-> j.raised, logs |-> <<>>]
      [] ctype \in TextTypes ->
            [ret |-> PyBytes(body.raw), raised |-> "", logs |-> <<>>]
      [] OTHER ->
            [ret |-> PyNone, raised |-> "", logs |-> <<"error: unknown content type">>]

Decode(c, body, ctype) ==
    IF c = TatumPkg THEN Decode_by_content_type(body, ctype)
                    ELSE Decode_json_in_try(body, ctype)

\* The Timer step of a call: wait_until_allowed(include_reset=True) in the
\* classes that have a Timer, nothing in the one that has none.
Gate(c, tm, t, lag) ==
    IF HasTimer(c)
    THEN LET w == Timer_wait_until_allowed(tm, t, TRUE, lag)
         IN [timer |-> w.timer, now |-> w.now, slept |-> w.slept,
             events |-> <<"wait_until_allowed">>]
    ELSE [timer |-> tm, now |-> t, slept |-> 0, events |-> <<>>]

Make_one_api_call_decodes_empty(c, call_type, net, tm, t, lag) ==
    LET org == Organize_api_call_method_and_arguments(call_type)
        g   == Gate(c, tm, t, lag)
        snd == Send_request(net)
        dec == IF snd.arrived
               THEN Decode(c, net.body, net.ctype)
               ELSE [ret |-> PyNone, raised |-> "", logs |-> <<>>]
    IN IF ~org.ok
       THEN [ret |-> PyNone, raised |-> "", events |-> <<>>, logs |-> org.logs,
             timer |-> tm, now |-> t, slept |-> 0]
       ELSE [ret |-> dec.ret, raised |-> dec.raised,
             events |-> g.events \o <<"request">>,
             logs |-> snd.logs \o dec.logs,
             timer |-> g.timer, now |-> g.now, slept |-> g.slept]

\* __make_one_api_call of class c, called at clock t with Timer tm; net is
\* what the network does and lag the oversleep of the wait. ret is the
\* returned payload, raised the exception that leaves the method ("" for
\* none), events what it did in order.
Make_one_api_call(c, call_type, net, tm, t, lag) ==
    LET org == Organize_api_call_method_and_arguments(call_type)
        g   == Gate(c, tm, t, lag)
        snd == Send_request(net)
        dec == IF snd.arrived /\ net.body.raw # ""
               THEN Decode(c, net.body, net.ctype)
               ELSE [ret |-> PyNone, raised |-> "", logs |-> <<>>]
    IN IF ~org.ok
       THEN [ret |-> PyNone, raised |-> "", events |-> <<>>, logs |-> org.logs,
             timer |-> tm, now |-> t, slept |-> 0]
       ELSE IF snd.raised # ""
       THEN [ret |-> PyNone, raised |-> snd.raised,
             events |-> g.events \o <<"request">>, logs |-> snd.logs,
             timer |-> g.timer, now |-> g.now, slept |-> g.slept]
       ELSE [ret |-> dec.ret, raised |-> dec.raised,
             events |-> g.events \o <<"request">>,
             logs |-> snd.logs \o dec.logs,
             timer |-> g.timer, now |-> g.now, slept |-> g.slept]

\* The record of one call in lastcall.
CallRecord(call_type, net, r) ==
    [kind |-> "call", call_type |-> call_type, net |-> net, ret |-> r.ret,
     raised |-> r.raised, events |-> r.events, logs |-> r.logs,
     slept |-> r.slept]

\* The bodies and responses a single call is tried on.
ExecBodies ==
    { EmptyBody,
      GarbageBody,
      Body("pong", FALSE, PyNone),
      Body("14500000", TRUE, PyInt(14500000)),
      Body("null", TRUE, PyNone),
      Body("[1, 2]", TRUE, PyList(<<1, 2>>)),
      Body("{\"total\": 2, \"result\": [1, 2], \"cursor\": \"\"}", TRUE,
           PyDict({"total", "result", "cursor"}, 2, <<1, 2>>, "")) }

ExecNets ==
    {TransportError} \cup {Response(b, ct) : b \in ExecBodies, ct \in ContentTypes}

\* One call of __make_one_api_call on the session's instance. No network
\* operation is chosen for a call type that is refused before any is made.
\* The wait does not oversleep here (SpecTimer covers that); the time the
\* request takes is a Tick after the call.
ExecCall ==
    \E call_type \in CallTypes, net \in ExecNets :
      \E r \in {Make_one_api_call(cls, call_type, net, timer, now, 0)} :
           /\ r.events = <<>> => net = TransportError
           /\ r.now <= MaxTime
           /\ timer' = r.timer
           /\ now' = r.now
           /\ lastcall' = CallRecord(call_type, net, r)
           /\ UNCHANGED <<permits, lastwait, cls>>
           /\ UNCHANGED apiVars
           /\ UNCHANGED driverVars
           /\ UNCHANGED <<construction, progress>>
           /\ UNCHANGED seleniumVars

\* An instance of one of the API classes, just constructed.
InitExec ==
    /\ now = ClockStart
    /\ cls \in Classes
    /\ \E r \in Rates :
          /\ timer = Class_init(cls, r, ClockStart)
          /\ construction = IF HasTimer(cls) THEN Built(r) ELSE NotConstructed
    /\ permits = <<>>
    /\ lastwait = NoWait
    /\ lastcall = NoCall
    /\ DriverIdle
    /\ progress = NoProgress
    /\ SeleniumIdle
    /\ headers = Class_headers(cls)
    /\ lastop = NoOp
    /\ page_size = NumItemsPerPage

NextExec == Tick \/ ExecCall

SpecExec == InitExec /\ [][NextExec]_vars

(* ---------------------------- PercentTracker -------------------------- *)

\* The values of int_output_every_x_percent the repository uses.
Steps == {BulkEveryXPercent, PrintEveryXPercent}

\* PercentTracker.__init__: percent_counter is float_percent_counter in
\* percent, every_x_percent is float_print_every_x_percent in percent.
PercentTracker_init(max_value_of_loop, int_output_every_x_percent, t) ==
    [exists |-> TRUE, max_loop_number |-> max_value_of_loop,
     percent_counter |-> 0, every_x_percent |-> int_output_every_x_percent,
     start_time |-> t]

\* float_percent_counter is a double that "+= float_print_every_x_percent"
\* builds up by repeated addition, so after k additions it is not always
\* the double nearest to k steps. The k+1-th entry is the sign of
\* (0.1 added k times) - (10 * k / 100) in IEEE 754 double arithmetic; as
\* the double 0.05 is half the double 0.1, it is also the sign of
\* (0.05 added k times) - (5 * k / 100).
DriftOfRepeatedSums ==
    <<0, 0, 0, 1, 0, 0, 0, 0, -1, -1, -1, -1, 0, 0, 1, 1, 1, 1, 1, 1, 1, 1, 1, 1>>

\* The sign of float_percent_counter minus the double nearest to its
\* nominal value, for a tracker whose counter was raised k times.
FloatDrift(tr) ==
    DriftOfRepeatedSums[tr.percent_counter \div tr.every_x_percent + 1]

\* float_progress > self.float_percent_counter, with float_progress =
\* counter / max_loop_number: the quotient is the double nearest to the
\* fraction, so the comparison is the exact one unless the fraction is the
\* nominal value of the counter, and then the drift decides.
Progress_above(tr, counter) ==
    \/ counter * 100 > tr.percent_counter * tr.max_loop_number
    \/ /\ counter * 100 = tr.percent_counter * tr.max_loop_number
       /\ FloatDrift(tr) < 0

\* The exception update_progress raises: counter / 0 when the tracker was
\* built with max_value_of_loop = 0; "" for none.
PercentTracker_update_raises(tr, counter) ==
    IF tr.max_loop_number = 0 THEN "ZeroDivisionError" ELSE ""

\* An update that sets the threshold from the fraction of each call, one
\* step above it: a lower count would lower the threshold.
PercentTracker_update_follows_fraction(tr, counter) ==
    IF tr.max_loop_number = 0 THEN tr
    ELSE [tr EXCEPT !.percent_counter =
             tr.every_x_percent
               * (((counter * 100) \div tr.max_loop_number) \div tr.every_x_percent + 1)]

\* An update that logs at the threshold as well as above it.
PercentTracker_update_at_or_above(tr, counter) ==
    IF counter * 100 >= tr.percent_counter * tr.max_loop_number
    THEN [tr EXCEPT !.percent_counter = @ + tr.every_x_percent]
    ELSE tr

\* PercentTracker.update_progress: when counter / max_loop_number is above
\* float_percent_counter the progress is logged and the counter raised by
\* one step.
PercentTracker_update_progress(tr, counter) ==
    IF Progress_above(tr, counter)
    THEN [tr EXCEPT !.percent_counter = @ + tr.every_x_percent]
    ELSE tr

\* estimate_time_remaining = time_elapsed * max_loop_number / counter -
\* time_elapsed at clock t, as it is logged: "{:.1f}" seconds (value is in
\* tenths of a second) when it is below 60 seconds, else int(... / 60)
\* minutes.
Estimate_time_remaining(tr, counter, t) ==
    LET time_elapsed == t - tr.start_time
        num == time_elapsed * (tr.max_loop_number - counter)
        den == TicksPerSecond * counter
    IN IF num < SecondsPerMinute * den
       THEN [shown |-> TRUE, unit |-> "seconds",
             value |-> (20 * num + den) \div (2 * den)]
       ELSE [shown |-> TRUE, unit |-> "minutes",
             value |-> num \div (SecondsPerMinute * den)]

\* What an update_progress call logs about the time remaining: the
\* estimate, when the call logs the progress, show_time_remaining_estimate
\* is set and float_percent_counter is not 0 (any more).
Eta_logged(tr, counter, show_time_remaining_estimate, t) ==
    IF /\ Progress_above(tr, counter)
       /\ show_time_remaining_estimate
       /\ tr.percent_counter # 0
    THEN Estimate_time_remaining(tr, counter, t)
    ELSE NoEta

\* progress after a call update_progress(counter, show) at clock t that
\* found the tracker before and left it after (or raised exc) and logged
\* the estimate eta.
Recorded(pr, before, after, counter, exc, show, t, eta) ==
    [fed     |-> IF pr.fed >= 0 /\ counter = pr.fed + 1 THEN counter ELSE -1,
     emitted |-> IF after # before THEN pr.emitted + 1 ELSE pr.emitted,
     last    |-> [kind |-> "update", counter |-> counter,
                  emitted |-> after # before, raised |-> exc,
                  before |-> before.percent_counter,
                  show |-> show, elapsed |-> t - before.start_time,
                  eta |-> eta]]

\* The totals a PercentTracker is built with.
Totals == (0..MaxTotal) \cup {100}

\* The loop the tracker is used in takes its time between two updates: a
\* minute passes.
Work ==
    /\ percent_tracker.exists
    /\ now < MaxTime
    /\ now' = now + SecondsPerMinute * TicksPerSecond
    /\ UNCHANGED <<timer, permits, lastwait, cls, lastcall, construction, progress>>
    /\ UNCHANGED apiVars
    /\ UNCHANGED driverVars
    /\ UNCHANGED seleniumVars

\* A caller calls update_progress(counter, show_time_remaining_estimate)
\* with some count up to the total.
Update_progress ==
    /\ percent_tracker.exists
    /\ \E counter \in 0..percent_tracker.max_loop_number, show \in BOOLEAN :
       \E exc \in {PercentTracker_update_raises(percent_tracker, counter)} :
       \E tr \in {IF exc = ""
                  THEN PercentTracker_update_progress(percent_tracker, counter)
                  ELSE percent_tracker} :
       \E eta \in {IF exc = ""
                   THEN Eta_logged(percent_tracker, counter, show, now)
                   ELSE NoEta} :
          /\ percent_tracker' = tr
          /\ progress' = Recorded(progress, percent_tracker, tr, counter, exc,
                                  show, now, eta)
    /\ UNCHANGED <<pc, params, full_data_set, is_first, calls, responses, result>>
    /\ UNCHANGED <<now, timer, permits, lastwait, cls, lastcall, construction>>
    /\ UNCHANGED apiVars
    /\ UNCHANGED seleniumVars

\* A PercentTracker just built, for some total and step.
InitTracker ==
    /\ now = ClockStart
    /\ timer = NoTimer
    /\ construction = NotConstructed
    /\ permits = <<>>
    /\ lastwait = NoWait
    /\ cls = "PercentTracker"
    /\ lastcall = NoCall
    /\ pc = "idle"
    /\ params = [has_cursor |-> FALSE, cursor |-> "", offset |-> 0, limit |-> 0,
                 pageSize |-> 0]
    /\ full_data_set = <<>>
    /\ is_first = TRUE
    /\ \E total \in Totals, every \in Steps :
          percent_tracker = PercentTracker_init(total, every, ClockStart)
    /\ calls = <<>>
    /\ responses = <<>>
    /\ result = NoResult
    /\ progress = NoProgress
    /\ SeleniumIdle
    /\ SessionIdle
    /\ page_size = NumItemsPerPage

NextTracker == Work \/ Update_progress

SpecTracker == InitTracker /\ [][NextTracker]_vars

(* --------------------------- pagination drivers ------------------------ *)

\* The exception v[key] raises for a str key, "" for none.
Subscript_raises(v, key) ==
    IF v.kind = "dict"
    THEN IF key \in v.keys THEN "" ELSE "KeyError"
    ELSE "TypeError"

\* The outcome of one loop iteration: the exception that leaves the driver
\* ("" for none), the driver's locals after it and whether the loop goes on.
Raises(exc, p, d, f, tr) ==
    [raised |-> exc, params |-> p, full_data_set |-> d, is_first |-> f,
     percent_tracker |-> tr, more |-> FALSE]
Continues(p, d, tr, more) ==
    [raised |-> "", params |-> p, full_data_set |-> d, is_first |-> FALSE,
     percent_tracker |-> tr, more |-> more]

\* The tracker after "if percent_tracker: percent_tracker.update_progress(
\* len(full_data_set))".
Tracked(tr, d) ==
    IF tr.exists THEN PercentTracker_update_progress(tr, Len(d)) ELSE tr

\* The body of the while loop of Moralis.__get_full_data_set_from_api after
\* the call returned v.
Cursor_iteration_Moralis(v, p, d, f, tr, t) ==
    IF Subscript_raises(v, "total") # ""
    THEN Raises(Subscript_raises(v, "total"), p, d, f, tr)
    ELSE
    LET size == v.total
        tr1  == IF f /\ size > 0 THEN PercentTracker_init(size, PrintEveryXPercent, t) ELSE tr
        d1   == IF size > 0 THEN d \o v.items ELSE d
    IN IF size > 0 /\ Subscript_raises(v, "result") # ""
       THEN Raises(Subscript_raises(v, "result"), p, d, f, tr)
       ELSE IF Subscript_raises(v, "cursor") # ""
       THEN Raises(Subscript_raises(v, "cursor"), p, d, f, tr)
       ELSE IF v.cursor # ""
       THEN Continues([p EXCEPT !.has_cursor = TRUE, !.cursor = v.cursor],
                      d1, Tracked(tr1, d1), TRUE)
       ELSE Continues(p, d1, Tracked(tr1, d1), FALSE)

\* The body of the while loop of MoralisPkg.__get_full_data_set_from_api
\* after the call returned v: 'total' is read in the first iteration only
\* and the result list is added only under a non-empty cursor.
Cursor_iteration_MoralisPkg(v, p, d, f, tr, t) ==
    IF f /\ Subscript_raises(v, "total") # ""
    THEN Raises(Subscript_raises(v, "total"), p, d, f, tr)
    ELSE
    LET tr1 == IF f /\ v.total > 0
               THEN PercentTracker_init(v.total, PrintEveryXPercent, t) ELSE tr
    IN IF Subscript_raises(v, "cursor") # ""
       THEN Raises(Subscript_raises(v, "cursor"), p, d, f, tr)
       ELSE IF v.cursor # ""
       THEN IF Subscript_raises(v, "result") # ""
            THEN Raises(Subscript_raises(v, "result"), p, d, f, tr)
            ELSE Continues([p EXCEPT !.has_cursor = TRUE, !.cursor = v.cursor],
                           d \o v.items, Tracked(tr1, d \o v.items), TRUE)
       ELSE Continues(p, d, Tracked(tr1, d), FALSE)

Cursor_iteration_keeps_request(c, v, p, d, f, tr, t) ==
    LET s == IF c = Moralis THEN Cursor_iteration_Moralis(v, p, d, f, tr, t)
                            ELSE Cursor_iteration_MoralisPkg(v, p, d, f, tr, t)
    IN [s EXCEPT !.params = p]

Cursor_iteration(c, v, p, d, f, tr, t) ==
    IF c = Moralis THEN Cursor_iteration_Moralis(v, p, d, f, tr, t)
                   ELSE Cursor_iteration_MoralisPkg(v, p, d, f, tr, t)

\* The body of the while loop of both Tatum drivers after the call returned
\* v: a page that is true is added and the offset advanced by
\* num_items_per_page, any other page ends the loop. (Pages are lists or
\* absent; extend() of an int raises TypeError.)
Offset_iteration_overlapping(v, p, d, f, tr) ==
    IF ~Truthy(v) THEN Continues(p, d, tr, FALSE)
    ELSE IF v.kind # "list" THEN Raises("TypeError", p, d, f, tr)
    ELSE Continues([p EXCEPT !.offset = @ + Len(v.items)], d \o v.items, tr, TRUE)

Offset_iteration_never_stops(v, p, d, f, tr) ==
    IF ~Truthy(v) THEN Continues(p, d, tr, TRUE)
    ELSE IF v.kind # "list" THEN Raises("TypeError", p, d, f, tr)
    ELSE Continues([p EXCEPT !.offset = @ + NumItemsPerPage], d \o v.items, tr, TRUE)

Offset_iteration_prepends(v, p, d, f, tr) ==
    IF ~Truthy(v) THEN Continues(p, d, tr, FALSE)
    ELSE IF v.kind # "list" THEN Raises("TypeError", p, d, f, tr)
    ELSE Continues([p EXCEPT !.offset = @ + NumItemsPerPage], v.items \o d, tr, TRUE)

Offset_iteration(v, p, d, f, tr) ==
    IF ~Truthy(v) THEN Continues(p, d, tr, FALSE)
    ELSE IF v.kind # "list" THEN Raises("TypeError", p, d, f, tr)
    ELSE Continues([p EXCEPT !.offset = @ + NumItemsPerPage], d \o v.items, tr, TRUE)

\* The page sizes an instance is constructed with: the default of
\* __init__, a smaller and a larger one.
PageSizes == {NumItemsPerPage \div 2, NumItemsPerPage, 2 * NumItemsPerPage}

\* dict_api_query_parameters as the caller passes it (0: the key is not in
\* it): get_multi_token_transactions_by_address of both Tatum classes puts
\* "pageSize": self.__page_size in it and TatumPkg's "offset": 200 too; the
\* callers of the Moralis drivers put neither a page size nor a limit in it.
Caller_params(c, ps) ==
    [has_cursor |-> FALSE, cursor |-> "",
     offset |-> IF c = TatumPkg THEN 200 ELSE 0, limit |-> 0,
     pageSize |-> IF c \in OffsetClasses THEN ps ELSE 0]

\* The parameters after the statements before the loop: the cursor driver
\* sets 'limit' to num_items_per_page, the offset driver sets 'offset' to 0.
\* No caller passes num_items_per_page, so that it is its default.
Driver_initial_params(c, ps) ==
    IF c \in CursorClasses
    THEN [Caller_params(c, ps) EXCEPT !.limit = NumItemsPerPage]
    ELSE [Caller_params(c, ps) EXCEPT !.offset = 0]

\* The k-th page of n records of a provider.
Page(k, n) == [i \in 1..n |-> 10 * k + i]

Cursors == {"c1", "c2"}
AllKeys == {"total", "result", "cursor"}

\* What a provider answers to the k-th call of a cursor-paginated run: a
\* transport failure, a body that is no JSON, an empty body, or a JSON
\* object with 'total', 'result' and (unless it omits it) 'cursor'. The
\* total of a response with records is positive.
CursorNets(k) ==
    {TransportError, Response(GarbageBody, "application/json"),
     Response(EmptyBody, "application/json")}
    \cup
    { Response(JsonBody(PyDict(keys, total, Page(k, n), cur)), "application/json") :
        <<keys, total, n, cur>> \in
            { x \in {AllKeys, AllKeys \ {"cursor"}} \X {0, MaxCalls * MaxPage}
                    \X (0..MaxPage) \X (Cursors \cup {""}) :
                /\ x[3] > 0 => x[2] > 0
                /\ "cursor" \notin x[1] => x[4] = "" } }

\* What a provider answers to the k-th call of an offset-paginated run: a
\* transport failure, a body that is no JSON, an empty body, or a JSON array.
OffsetNets(k) ==
    {TransportError, Response(GarbageBody, "application/json"),
     Response(EmptyBody, "application/json")}
    \cup
    { Response(JsonBody(PyList(Page(k, n))), "application/json") : n \in 0..MaxPage }

\* __get_full_data_set_from_api is entered: the statements before the loop.
Driver_enter ==
    /\ pc = "idle"
    /\ cls \in CursorClasses \cup OffsetClasses
    /\ pc' = "loop"
    /\ params' = Driver_initial_params(cls, page_size)
    /\ full_data_set' = <<>>
    /\ is_first' = TRUE
    /\ percent_tracker' = NoTracker
    /\ UNCHANGED <<calls, responses, result>>
    /\ UNCHANGED <<now, timer, permits, lastwait, cls, lastcall>>
    /\ UNCHANGED apiVars
    /\ UNCHANGED <<construction, progress>>
    /\ UNCHANGED seleniumVars

\* One iteration of the while loop: the call, with the provider's answer
\* net, and the handling of what it returned; the return statement after
\* the loop when the iteration ends it.
Driver_iteration ==
    /\ pc = "loop"
    /\ Len(calls) < MaxCalls
    /\ \E net \in IF cls \in CursorClasses THEN CursorNets(Len(calls) + 1)
                                          ELSE OffsetNets(Len(calls) + 1) :
       \E r \in {Make_one_api_call(cls, "get", net, timer, now, 0)} :
       \E s \in {IF r.raised # ""
                 THEN Raises(r.raised, params, full_data_set, is_first, percent_tracker)
                 ELSE IF cls \in CursorClasses
                 THEN Cursor_iteration(cls, r.ret, params, full_data_set,
                                       is_first, percent_tracker, r.now)
                 ELSE Offset_iteration(r.ret, params, full_data_set,
                                       is_first, percent_tracker)} :
          /\ calls' = Append(calls, params)
          /\ responses' = Append(responses, net)
          /\ timer' = r.timer
          /\ now' = r.now
          /\ lastcall' = CallRecord("get", net, r)
          /\ params' = s.params
          /\ full_data_set' = s.full_data_set
          /\ is_first' = s.is_first
          /\ percent_tracker' = s.percent_tracker
          /\ pc' = IF s.raised # "" THEN "raised"
                   ELSE IF s.more THEN "loop" ELSE "returned"
          /\ result' = IF s.raised # ""
                       THEN [kind |-> "raised", data |-> <<>>, exc |-> s.raised]
                       ELSE IF s.more THEN result
                       ELSE [kind |-> "returned", data |-> s.full_data_set, exc |-> ""]
          /\ UNCHANGED <<permits, lastwait, cls>>
          /\ UNCHANGED apiVars
          /\ UNCHANGED <<construction, progress>>
          /\ UNCHANGED seleniumVars

\* An instance of one of the paginating classes, just constructed.
InitPage ==
    /\ now = ClockStart
    /\ cls \in CursorClasses \cup OffsetClasses
    /\ \E r \in Rates :
          /\ timer = Class_init(cls, r, ClockStart)
          /\ construction = IF HasTimer(cls) THEN Built(r) ELSE NotConstructed
    /\ permits = <<>>
    /\ lastwait = NoWait
    /\ lastcall = NoCall
    /\ DriverIdle
    /\ progress = NoProgress
    /\ SeleniumIdle
    /\ headers = Class_headers(cls)
    /\ lastop = NoOp
    /\ page_size \in PageSizes

NextPage == Driver_enter \/ Driver_iteration

SpecPage == InitPage /\ [][NextPage]_vars

(* ------------------ public methods that make one call ------------------ *)

\* headers.update(new): the headers named in new replace those of h.
Headers_update(h, new) ==
    {x \in h : \A y \in new : y[1] # x[1]} \cup new

\* Tatum.__reset_headers: the credentials file is read again; when that
\* fails the exception leaves the method before the headers are touched.
Reset_headers(h, creds_file) ==
    IF creds_file = "unreadable"
    THEN [raised |-> "OSError", headers |-> h]
    ELSE [raised |-> "",
          headers |-> Headers_update(Headers_update({}, TatumRequestHeaders),
                                     {<<"x-api-key", "<key>">>})]

\* Which failure a single call met: the network operation raised, the
\* body was empty, or it was no JSON ("": none of them).
Failure(net) ==
    IF net.kind = "exception" THEN "transport"
    ELSE IF net.body.raw = "" THEN "empty body"
    ELSE IF ~net.body.valid_json THEN "undecodable"
    ELSE ""

\* Tatum.get_current_ethereum_block_number(testnet) called with the headers
\* h: the testnet header is added, the call made and the headers reset.
Get_current_ethereum_block_number_no_reset(testnet, net, creds_file, h, tm, t) ==
    LET sent == IF testnet # ""
                THEN Headers_update(h, {<<"x-testnet-type", testnet>>}) ELSE h
        r    == Make_one_api_call(Tatum, "get", net, tm, t, 0)
    IN [ret |-> r.ret, raised |-> r.raised, sent |-> sent, headers |-> sent,
        timer |-> r.timer, now |-> r.now]

Get_current_ethereum_block_number(testnet, net, creds_file, h, tm, t) ==
    LET sent == IF testnet # ""
                THEN Headers_update(h, {<<"x-testnet-type", testnet>>}) ELSE h
        r    == Make_one_api_call(Tatum, "get", net, tm, t, 0)
        rst  == IF testnet # "" /\ r.raised = ""
                THEN Reset_headers(sent, creds_file)
                ELSE [raised |-> r.raised, headers |-> sent]
    IN [ret |-> r.ret, raised |-> rst.raised, sent |-> sent,
        headers |-> rst.headers, timer |-> r.timer, now |-> r.now]

\* The text of the 'metadata' field of a token that json.loads accepts.
ValidMetadata == "{\"name\": \"x\"}"

\* Moralis.resync_an_nft_tokens_metadata once the call returned v:
\* 'status' not in response, which needs a container.
Resync_an_nft_tokens_metadata(v) ==
    IF v.kind \in {"dict", "list"}
    THEN [raised |-> "", ret |-> PyNone]
    ELSE [raised |-> "TypeError", ret |-> PyNone]

\* Moralis.get_an_nft_tokens_metadata once the call returned v:
\* json.loads(dict_nft_metadata['metadata']) and the dictionary returned.
Get_an_nft_tokens_metadata(v) ==
    IF Subscript_raises(v, "metadata") # ""
    THEN [raised |-> Subscript_raises(v, "metadata"), ret |-> PyNone]
    ELSE IF v.raw # ValidMetadata
    THEN [raised |-> "JSONDecodeError", ret |-> PyNone]
    ELSE [raised |-> "", ret |-> v]

SingleOps == {"resync_an_nft_tokens_metadata", "get_an_nft_tokens_metadata"}
ManyOps == {"resync_many_nft_tokens_metadata", "get_many_nft_tokens_metadata"}

\* The method the loop of a batch method calls for each token.
Single_of(op) ==
    IF op \in {"resync_an_nft_tokens_metadata", "resync_many_nft_tokens_metadata"}
    THEN "resync_an_nft_tokens_metadata" ELSE "get_an_nft_tokens_metadata"

Single_op(op, v) ==
    IF Single_of(op) = "resync_an_nft_tokens_metadata"
    THEN Resync_an_nft_tokens_metadata(v)
    ELSE Get_an_nft_tokens_metadata(v)

\* What the provider answers to the one call of such a method: a transport
\* failure, a body that is no JSON, an empty body, a block number, or a
\* JSON object with or without the fields the method reads.
OpNets ==
    {TransportError, Response(GarbageBody, "application/json"),
     Response(EmptyBody, "application/json"),
     Response(Body("14500000", TRUE, PyInt(14500000)), "application/json")}
    \cup
    { Response(JsonBody([PyDict(keys, 0, <<>>, "") EXCEPT !.raw = text]),
               "application/json") :
        keys \in {{}, {"status"}, {"metadata"}},
        text \in {ValidMetadata, "not json"} }

\* lastop of a method that made its call with the answer net.
OpRecord(op, state, exc, ret, net, n, counter) ==
    [NoOp EXCEPT !.op = op, !.state = state, !.raised = exc, !.ret = ret.kind,
                 !.failure = Failure(net), !.n = n, !.counter = counter]

\* get_current_ethereum_block_number(testnet) on an instance of Tatum; the
\* credentials file is readable or not when the headers are reset.
Block_number ==
    /\ cls = Tatum
    /\ \E testnet \in {"", "ethereum-ropsten"}, net \in OpNets,
          creds_file \in {"readable", "unreadable"} :
       \E r \in {Get_current_ethereum_block_number(testnet, net, creds_file,
                                                   headers, timer, now)} :
          /\ r.now <= MaxTime
          /\ timer' = r.timer
          /\ now' = r.now
          /\ headers' = r.headers
          /\ lastop' = [OpRecord("get_current_ethereum_block_number",
                                 IF r.raised = "" THEN "returned" ELSE "raised",
                                 r.raised, r.ret, net, 0, 0)
                          EXCEPT !.testnet = testnet, !.before = headers,
                                 !.sent = r.sent]
    /\ UNCHANGED <<permits, lastwait, cls, lastcall, construction, progress>>
    /\ UNCHANGED driverVars
    /\ UNCHANGED seleniumVars
    /\ UNCHANGED page_size

\* resync_an_nft_tokens_metadata or get_an_nft_tokens_metadata on an instance
\* of Moralis.
Single_call ==
    /\ cls = Moralis
    /\ lastop.state # "running"
    /\ \E op \in SingleOps, net \in OpNets :
       \E r \in {Make_one_api_call(Moralis, "get", net, timer, now, 0)} :
       \E s \in {IF r.raised # "" THEN [raised |-> r.raised, ret |-> PyNone]
                                  ELSE Single_op(op, r.ret)} :
          /\ r.now <= MaxTime
          /\ timer' = r.timer
          /\ now' = r.now
          /\ lastop' = OpRecord(op, IF s.raised = "" THEN "returned" ELSE "raised",
                                s.raised, s.ret, net, 0, 0)
    /\ UNCHANGED <<permits, lastwait, cls, lastcall, construction, progress>>
    /\ UNCHANGED driverVars
    /\ UNCHANGED seleniumVars
    /\ UNCHANGED <<headers, page_size>>

\* The sleep_time_between_requests a batch method is called with, in
\* ticks: resync_many_nft_tokens_metadata has the parameter (default 0),
\* get_many_nft_tokens_metadata has none.
Delays(op) ==
    IF op = "resync_many_nft_tokens_metadata" THEN {0, 1} ELSE {0}

\* The time slept in one iteration of the loop of a batch method called
\* with delay d: "if sleep_time_between_requests: time.sleep(...)" after
\* the method for the token returned, nothing when it raised.
Sleep_between_requests(d, exc) == IF exc = "" THEN d ELSE 0

\* resync_many_nft_tokens_metadata or get_many_nft_tokens_metadata is called
\* with n token ids: the tracker is built; the loop of no token ends at once.
Many_enter ==
    /\ cls = Moralis
    /\ lastop.state # "running"
    /\ \E op \in ManyOps, n \in 0..MaxItems :
       \E d \in Delays(op) :
          /\ lastop' = [NoOp EXCEPT !.op = op, !.n = n, !.delay = d,
                          !.state = IF n = 0 THEN "returned" ELSE "running"]
          /\ percent_tracker' = PercentTracker_init(n, BulkEveryXPercent, now)
    /\ progress' = NoProgress
    /\ UNCHANGED <<pc, params, full_data_set, is_first, calls, responses, result>>
    /\ UNCHANGED <<now, timer, permits, lastwait, cls, lastcall, construction>>
    /\ UNCHANGED seleniumVars
    /\ UNCHANGED <<headers, page_size>>

\* One iteration of the loop of a batch method: the method for one token,
\* whose exception leaves the batch method, then the sleep and the
\* progress; the return after the last token.
Many_item ==
    /\ cls = Moralis
    /\ lastop.state = "running"
    /\ \E net \in OpNets :
       \E r \in {Make_one_api_call(Moralis, "get", net, timer, now, 0)} :
       \E s \in {IF r.raised # "" THEN [raised |-> r.raised, ret |-> PyNone]
                                  ELSE Single_op(lastop.op, r.ret)} :
       \E slept \in {Sleep_between_requests(lastop.delay, s.raised)} :
       \E tr \in {IF s.raised # "" THEN percent_tracker
                  ELSE PercentTracker_update_progress(percent_tracker,
                                                      lastop.counter + 1)} :
          /\ r.now + slept <= MaxTime
          /\ timer' = r.timer
          /\ now' = r.now + slept
          /\ percent_tracker' = tr
          /\ progress' = IF s.raised # "" THEN progress
                         ELSE Recorded(progress, percent_tracker, tr,
                                       lastop.counter + 1, "", TRUE,
                                       r.now + slept,
                                       Eta_logged(percent_tracker,
                                                  lastop.counter + 1, TRUE,
                                                  r.now + slept))
          /\ lastop' = [OpRecord(lastop.op,
                                 IF s.raised # "" THEN "raised"
                                 ELSE IF lastop.counter + 1 = lastop.n
                                 THEN "returned" ELSE "running",
                                 s.raised, s.ret, net, lastop.n,
                                 IF s.raised # "" THEN lastop.counter
                                                  ELSE lastop.counter + 1)
                          EXCEPT !.delay = lastop.delay, !.waited = slept]
    /\ UNCHANGED <<pc, params, full_data_set, is_first, calls, responses, result>>
    /\ UNCHANGED <<permits, lastwait, cls, lastcall, construction>>
    /\ UNCHANGED seleniumVars
    /\ UNCHANGED <<headers, page_size>>

\* An instance of Tatum or of Moralis, just constructed.
InitOps ==
    /\ now = ClockStart
    /\ cls \in {Tatum, Moralis}
    /\ \E r \in Rates :
          /\ timer = Class_init(cls, r, ClockStart)
          /\ construction = Built(r)
    /\ permits = <<>>
    /\ lastwait = NoWait
    /\ lastcall = NoCall
    /\ DriverIdle
    /\ progress = NoProgress
    /\ SeleniumIdle
    /\ headers = Class_headers(cls)
    /\ lastop = NoOp
    /\ page_size = NumItemsPerPage

NextOps == Tick \/ Block_number \/ Single_call \/ Many_enter \/ Many_item

SpecOps == InitOps /\ [][NextOps]_vars

(* ------------------ SeleniumOnOpensea: the bulk retry loop ------------- *)

\* What one get_an_nfts_properties call runs into: the page loads and the
\* properties are read ("ok"), the page loads and reading it raises
\* ("raised", as when the summary div is not found), or driver.get raises
\* and __load_opensea_page returns False ("not_loaded").
FetchOutcomes == {"ok", "raised", "not_loaded"}

\* driver.get raises on anything but an open browser session: on the class
\* webdriver.Firefox that __init__ stores and on a closed session.
OutcomesOn(b) == IF b = "open" THEN FetchOutcomes ELSE {"not_loaded"}

\* The rows of list_results: the dict of a token, or None.
DictRow(token_id) == [kind |-> "dict", token_id |-> token_id]
NoneRow == [kind |-> "None", token_id |-> 0]

\* get_an_nfts_properties: "if not self.__load_opensea_page(url): return"
\* returns None without raising; else the dict, or the exception of the
\* extraction.
Get_an_nfts_properties(token_id, outcome) ==
    CASE outcome = "ok"         -> [raised |-> "", value |-> DictRow(token_id)]
      [] outcome = "not_loaded" -> [raised |-> "", value |-> NoneRow]
      [] outcome = "raised"     -> [raised |-> "Exception", value |-> NoneRow]

\* list.remove(x): the list without the first x.
RECURSIVE Remove(_, _)
Remove(l, x) ==
    IF l = <<>> THEN <<>>
    ELSE IF Head(l) = x THEN Tail(l)
    ELSE <<Head(l)>> \o Remove(Tail(l), x)

\* A while condition that tests attempt_number only: it would run passes on
\* an empty retry set.
While_attempts_only(list_for_success_tracking, attempt_number) ==
    attempt_number <= MaxAttempts

\* "while list_for_success_tracking and attempt_number <= 3".
While_condition(list_for_success_tracking, attempt_number) ==
    list_for_success_tracking # <<>> /\ attempt_number <= MaxAttempts

Try_item_always_removes(b, outcome) ==
    LET item == b.token_ids[b.pos]
        r    == Get_an_nfts_properties(item, outcome)
        token_processing_successful == r.raised = ""
    IN [b EXCEPT
          !.list_results = IF token_processing_successful
                           THEN Append(@, r.value) ELSE @,
          !.list_for_success_tracking = Remove(@, item),
          !.counter = IF token_processing_successful THEN @ + 1 ELSE @,
          !.pos = @ + 1,
          !.pc = IF b.pos + 1 > Len(b.token_ids) THEN "pass_end" ELSE "for"]

\* The body of the for loop for the item at pos, up to the call of
\* update_progress: the locals after it.
Try_item(b, outcome) ==
    LET item == b.token_ids[b.pos]
        r    == Get_an_nfts_properties(item, outcome)
        token_processing_successful == r.raised = ""
    IN [b EXCEPT
          !.list_results = IF token_processing_successful
                           THEN Append(@, r.value) ELSE @,
          !.list_for_success_tracking = IF token_processing_successful
                                        THEN Remove(@, item) ELSE @,
          !.counter = IF token_processing_successful THEN @ + 1 ELSE @,
          !.pos = @ + 1,
          !.pc = IF b.pos + 1 > Len(b.token_ids) THEN "pass_end" ELSE "for"]

\* The token ids a caller passes: n pairwise distinct ones.
TokenIds(n) == [i \in 1..n |-> i]

\* start_driver: webdriver.Firefox() gives a session, or raises and
\* self.driver stays what it was.
Start_driver ==
    /\ bulk.pc = "idle"
    /\ lastop.state # "running"
    /\ browser = "class"
    /\ \E started \in BOOLEAN : browser' = IF started THEN "open" ELSE browser
    /\ UNCHANGED <<bulk, attempts>>
    /\ UNCHANGED <<now, timer, permits, lastwait, cls, lastcall, construction, progress>>
    /\ UNCHANGED apiVars
    /\ UNCHANGED driverVars

\* The caller calls close_driver, before or after the bulk run.
Close_driver ==
    /\ bulk.pc \in {"idle", "returned"}
    /\ lastop.state # "running"
    /\ browser = "open"
    /\ browser' = "closed"
    /\ UNCHANGED <<bulk, attempts>>
    /\ UNCHANGED <<now, timer, permits, lastwait, cls, lastcall, construction, progress>>
    /\ UNCHANGED apiVars
    /\ UNCHANGED driverVars

\* get_many_nfts_properties is called: the statements before the loop and
\* the first test of the while condition.
Bulk_enter ==
    /\ bulk.pc = "idle"
    /\ \E n \in 0..MaxItems :
          /\ bulk' = [pc |-> IF While_condition(TokenIds(n), 1) THEN "for" ELSE "convert",
                      input |-> TokenIds(n), token_ids |-> TokenIds(n), pos |-> 1,
                      list_for_success_tracking |-> TokenIds(n),
                      list_results |-> <<>>, counter |-> 0,
                      attempt_number |-> 1, returned |-> <<>>]
          /\ percent_tracker' = PercentTracker_init(n, BulkEveryXPercent, now)
    /\ progress' = NoProgress
    /\ UNCHANGED <<browser, attempts>>
    /\ UNCHANGED <<pc, params, full_data_set, is_first, calls, responses, result>>
    /\ UNCHANGED <<now, timer, permits, lastwait, cls, lastcall, construction>>
    /\ UNCHANGED apiVars

\* One iteration of the for loop: the item is fetched, with some outcome,
\* booked and the progress updated.
Bulk_item ==
    /\ bulk.pc = "for"
    /\ \E outcome \in OutcomesOn(browser) :
       \E b \in {Try_item(bulk, outcome)} :
       \E tr \in {PercentTracker_update_progress(percent_tracker, b.counter)} :
          /\ bulk' = b
          /\ attempts' = Append(attempts, [item |-> bulk.token_ids[bulk.pos],
                                           pass |-> bulk.attempt_number,
                                           outcome |-> outcome])
          /\ percent_tracker' = tr
          /\ progress' = Recorded(progress, percent_tracker, tr, b.counter, "",
                                  TRUE, now,
                                  Eta_logged(percent_tracker, b.counter, TRUE, now))
    /\ UNCHANGED browser
    /\ UNCHANGED <<pc, params, full_data_set, is_first, calls, responses, result>>
    /\ UNCHANGED <<now, timer, permits, lastwait, cls, lastcall, construction>>
    /\ UNCHANGED apiVars

\* The end of a pass: token_ids = list(list_for_success_tracking),
\* attempt_number += 1 and the test of the while condition.
Bulk_next_pass ==
    /\ bulk.pc = "pass_end"
    /\ bulk' = [bulk EXCEPT
          !.token_ids = bulk.list_for_success_tracking,
          !.attempt_number = @ + 1,
          !.pos = 1,
          !.pc = IF While_condition(bulk.list_for_success_tracking,
                                    bulk.attempt_number + 1)
                 THEN IF bulk.list_for_success_tracking = <<>>
                      THEN "pass_end" ELSE "for"
                 ELSE "convert"]
    /\ UNCHANGED <<browser, attempts>>
    /\ UNCHANGED <<now, timer, permits, lastwait, cls, lastcall, construction, progress>>
    /\ UNCHANGED apiVars
    /\ UNCHANGED driverVars

\* Whether pd.DataFrame(list_results) builds a frame: it does from dicts;
\* from a list that holds a None among them it does or raises, with the
\* version of pandas and the position of the None.
Conversions(list_results) ==
    IF \E i \in DOMAIN list_results : list_results[i] = NoneRow
    THEN BOOLEAN ELSE {TRUE}

\* After the loop: pd.DataFrame(list_results) is returned, or it raises,
\* the list is dumped to disk and exit(0) ends the process.
Bulk_return ==
    /\ bulk.pc = "convert"
    /\ \E converted \in Conversions(bulk.list_results) :
          bulk' = [bulk EXCEPT
                     !.pc = IF converted THEN "returned" ELSE "exited",
                     !.returned = IF converted THEN bulk.list_results ELSE <<>>]
    /\ UNCHANGED <<browser, attempts>>
    /\ UNCHANGED <<now, timer, permits, lastwait, cls, lastcall, construction, progress>>
    /\ UNCHANGED apiVars
    /\ UNCHANGED driverVars

\* A SeleniumOnOpensea object just constructed.
InitBulk ==
    /\ now = ClockStart
    /\ timer = NoTimer
    /\ construction = NotConstructed
    /\ permits = <<>>
    /\ lastwait = NoWait
    /\ cls = "src/class_selenium_opensea.py"
    /\ lastcall = NoCall
    /\ DriverIdle
    /\ progress = NoProgress
    /\ SeleniumIdle
    /\ SessionIdle
    /\ page_size = NumItemsPerPage

NextBulk ==
    \/ Start_driver
    \/ Close_driver
    \/ Bulk_enter
    \/ Bulk_item
    \/ Bulk_next_pass
    \/ Bulk_return

SpecBulk == InitBulk /\ [][NextBulk]_vars

(* ------------------ Opensea.get_many_nft_tokens_metadata --------------- *)

\* Opensea.get_an_nft_tokens_metadata for the identifier item: the payload
\* r of its one call is returned as it is; as an entry of list_of_tokens it
\* is the token's dictionary or None.
Opensea_get_an_nft_tokens_metadata(item, r) ==
    IF r.raised # "" THEN [raised |-> r.raised, row |-> NoneRow]
    ELSE IF r.ret.kind = "None" THEN [raised |-> "", row |-> NoneRow]
    ELSE [raised |-> "", row |-> DictRow(item)]

\* What the provider answers to the call for one token: a transport
\* failure, a body that is no JSON, an empty body, or the JSON object of
\* the token.
OpenseaNets ==
    {TransportError, Response(GarbageBody, "application/json"),
     Response(EmptyBody, "application/json"),
     Response(JsonBody(PyDict({"name", "image"}, 0, <<>>, "")), "application/json")}

\* get_many_nft_tokens_metadata is called with n identifiers: the
\* statements before the loop.
Opensea_many_enter ==
    /\ cls = Opensea
    /\ lastop.state \notin {"running", "convert"}
    /\ \E n \in 0..MaxItems :
          /\ lastop' = [NoOp EXCEPT !.op = "get_many_nft_tokens_metadata",
                          !.n = n,
                          !.state = IF n = 0 THEN "convert" ELSE "running"]
          /\ percent_tracker' = PercentTracker_init(n, BulkEveryXPercent, now)
    /\ progress' = NoProgress
    /\ UNCHANGED <<pc, params, full_data_set, is_first, calls, responses, result>>
    /\ UNCHANGED <<now, timer, permits, lastwait, cls, lastcall, construction>>
    /\ UNCHANGED seleniumVars
    /\ UNCHANGED <<headers, page_size>>

\* One iteration of the loop: the call for the next identifier, its entry
\* appended, the counter raised and the progress updated.
Opensea_many_item ==
    /\ cls = Opensea
    /\ lastop.state = "running"
    /\ \E net \in OpenseaNets :
       \E item \in {Len(lastop.issued) + 1} :
       \E r \in {Make_one_api_call(Opensea, "get", net, timer, now, 0)} :
       \E e \in {Opensea_get_an_nft_tokens_metadata(item, r)} :
       \E tr \in {IF e.raised # "" THEN percent_tracker
                  ELSE PercentTracker_update_progress(percent_tracker,
                                                      lastop.counter + 1)} :
          /\ r.now <= MaxTime
          /\ timer' = r.timer
          /\ now' = r.now
          /\ percent_tracker' = tr
          /\ progress' = IF e.raised # "" THEN progress
                         ELSE Recorded(progress, percent_tracker, tr,
                                       lastop.counter + 1, "", FALSE, r.now,
                                       NoEta)
          /\ lastop' = [lastop EXCEPT
                          !.issued = Append(@, item),
                          !.failure = Failure(net),
                          !.raised = e.raised,
                          !.entries = IF e.raised # "" THEN @ ELSE Append(@, e.row),
                          !.counter = IF e.raised # "" THEN @ ELSE @ + 1,
                          !.state = IF e.raised # "" THEN "raised"
                                    ELSE IF item = lastop.n THEN "convert"
                                    ELSE "running"]
    /\ UNCHANGED <<pc, params, full_data_set, is_first, calls, responses, result>>
    /\ UNCHANGED <<permits, lastwait, cls, lastcall, construction>>
    /\ UNCHANGED seleniumVars
    /\ UNCHANGED <<headers, page_size>>

\* After the loop: "return pd.DataFrame(list_of_tokens)", which returns the
\* frame or raises.
Opensea_many_return ==
    /\ cls = Opensea
    /\ lastop.state = "convert"
    /\ \E converted \in Conversions(lastop.entries) :
          lastop' = [lastop EXCEPT
                       !.state = IF converted THEN "returned" ELSE "raised",
                       !.raised = IF converted THEN "" ELSE "AttributeError"]
    /\ UNCHANGED <<now, timer, permits, lastwait, cls, lastcall, construction, progress>>
    /\ UNCHANGED driverVars
    /\ UNCHANGED seleniumVars
    /\ UNCHANGED <<headers, page_size>>

\* An instance of OpenseaAPIinteractions, just constructed.
InitOpensea ==
    /\ now = ClockStart
    /\ cls = Opensea
    /\ \E r \in Rates :
          /\ timer = Class_init(cls, r, ClockStart)
          /\ construction = Built(r)
    /\ permits = <<>>
    /\ lastwait = NoWait
    /\ lastcall = NoCall
    /\ DriverIdle
    /\ progress = NoProgress
    /\ SeleniumIdle
    /\ headers = Class_headers(cls)
    /\ lastop = NoOp
    /\ page_size = NumItemsPerPage

NextOpensea ==
    Tick \/ Opensea_many_enter \/ Opensea_many_item \/ Opensea_many_return

SpecOpensea == InitOpensea /\ [][NextOpensea]_vars

(* ------------------ SeleniumOnOpensea: refresh_many_nfts --------------- *)

\* What one refresh_an_nft call runs into: the button is clicked ("ok"),
\* driver.get raises and __load_opensea_page returns False ("not_loaded"),
\* the toolbar div is not found, or the click fails, inside the try of the
\* method ("click_failed"), or a statement outside the try blocks raises,
\* as the formatting of the item into the URL can ("raised").
RefreshOutcomes == {"ok", "not_loaded", "click_failed", "raised"}

\* driver.get raises on anything but an open browser session; the URL is
\* built before it.
RefreshOutcomesOn(b) ==
    IF b = "open" THEN RefreshOutcomes ELSE {"not_loaded", "raised"}

\* refresh_an_nft: the exception that leaves it, "" for none. It returns
\* when the page does not load, and logs what the click raised.
Refresh_an_nft(outcome) == IF outcome = "raised" THEN "Exception" ELSE ""

\* An iteration of the loop that lets the exception of refresh_an_nft leave
\* refresh_many_nfts.
Refresh_iteration_lets_it_out(op, item, exc) ==
    [op EXCEPT !.issued = Append(@, item),
               !.counter = IF op.log_counter THEN @ + 1 ELSE @,
               !.raised = exc,
               !.waited = IF exc = "" THEN op.delay ELSE 0,
               !.state = IF exc # "" THEN "raised"
                         ELSE IF Len(op.issued) + 1 = op.n THEN "returned"
                         ELSE "running"]

\* One iteration of the loop of refresh_many_nfts on an item: the counter
\* moves under log_counter only, "except Exception" logs what refresh_an_nft
\* raised, then the sleep when wait_x_seconds_per_request > 0; the for loop
\* moves to the next item, and the method returns after the last one.
Refresh_iteration(op, item, exc) ==
    [op EXCEPT !.issued = Append(@, item),
               !.counter = IF op.log_counter THEN @ + 1 ELSE @,
               !.raised = "",
               !.waited = IF op.delay > 0 THEN op.delay ELSE 0,
               !.state = IF Len(op.issued) + 1 = op.n THEN "returned"
                         ELSE "running"]

\* refresh_many_nfts is called with n token ids: the tracker is built and
\* counter = 0; the loop of no token ends at once.
Refresh_enter ==
    /\ lastop.state = "none"
    /\ \E n \in 0..MaxItems, log_counter \in BOOLEAN, d \in {0, 1} :
          /\ lastop' = [NoOp EXCEPT !.op = "refresh_many_nfts", !.n = n,
                          !.delay = d, !.log_counter = log_counter,
                          !.state = IF n = 0 THEN "returned" ELSE "running"]
          /\ percent_tracker' = PercentTracker_init(n, BulkEveryXPercent, now)
    /\ progress' = NoProgress
    /\ attempts' = <<>>
    /\ UNCHANGED <<browser, bulk>>
    /\ UNCHANGED <<pc, params, full_data_set, is_first, calls, responses, result>>
    /\ UNCHANGED <<now, timer, permits, lastwait, cls, lastcall, construction>>
    /\ UNCHANGED <<headers, page_size>>

\* One iteration of the for loop: refresh_an_nft on the next item, with
\* some outcome, the sleep, and the progress updated with the counter.
Refresh_item ==
    /\ lastop.state = "running"
    /\ \E outcome \in RefreshOutcomesOn(browser) :
       \E item \in {TokenIds(lastop.n)[Len(lastop.issued) + 1]} :
       \E o \in {Refresh_iteration(lastop, item, Refresh_an_nft(outcome))} :
       \E tr \in {IF o.state = "raised" THEN percent_tracker
                  ELSE PercentTracker_update_progress(percent_tracker, o.counter)} :
          /\ now + o.waited <= MaxTime
          /\ now' = now + o.waited
          /\ lastop' = o
          /\ attempts' = Append(attempts, [item |-> item, pass |-> 1,
                                           outcome |-> outcome])
          /\ percent_tracker' = tr
          /\ progress' = IF o.state = "raised" THEN progress
                         ELSE Recorded(progress, percent_tracker, tr, o.counter,
                                       "", TRUE, now + o.waited,
                                       Eta_logged(percent_tracker, o.counter,
                                                  TRUE, now + o.waited))
    /\ UNCHANGED <<browser, bulk>>
    /\ UNCHANGED <<pc, params, full_data_set, is_first, calls, responses, result>>
    /\ UNCHANGED <<timer, permits, lastwait, cls, lastcall, construction>>
    /\ UNCHANGED <<headers, page_size>>

NextRefresh ==
    \/ Start_driver
    \/ Close_driver
    \/ Refresh_enter
    \/ Refresh_item

\* A SeleniumOnOpensea object just constructed, as in InitBulk.
SpecRefresh == InitBulk /\ [][NextRefresh]_vars

(* ------------------------------- C1 ------------------------------------ *)

\* C1: on one Timer, two consecutive wait_until_allowed(include_reset=True)
\* calls never return closer together than the interval 1/R, whatever time
\* the caller spends between them, so N gated calls take at least (N-1)/R.
C1_RateSpacing ==
    /\ \A i \in 1..(Len(permits) - 1) :
          permits[i + 1] - permits[i] >= timer.limit_as_decimal
    /\ Len(permits) >= 1 =>
          permits[Len(permits)] - permits[1]
              >= (Len(permits) - 1) * timer.limit_as_decimal

\* Three gated calls were made, the last one had to sleep, and it returned
\* exactly one interval after the one before.
C1_Witness ==
    /\ Len(permits) >= 3
    /\ lastwait.kind = "wait" /\ lastwait.include_reset /\ lastwait.slept > 0
    /\ permits[Len(permits)] - permits[Len(permits) - 1] = timer.limit_as_decimal
    /\ timer.limit_as_decimal > 1

(* ---------------------------- C2 .. C5 --------------------------------- *)

\* The in-order concatenation of the record lists of the responses rs.
RECURSIVE ConcatPages(_)
ConcatPages(rs) ==
    IF rs = <<>> THEN <<>>
    ELSE ConcatPages(SubSeq(rs, 1, Len(rs) - 1)) \o rs[Len(rs)].body.doc.items

\* A successful response of a cursor-paginated provider: a JSON object with
\* 'total', 'result' and 'cursor'.
SuccessDict(net) ==
    /\ net.kind = "response" /\ net.body.raw # "" /\ net.body.valid_json
    /\ net.body.doc.kind = "dict" /\ net.body.doc.keys = AllKeys

\* A page of an offset-paginated provider: a JSON array.
ListPage(net) ==
    /\ net.kind = "response" /\ net.body.raw # "" /\ net.body.valid_json
    /\ net.body.doc.kind = "list"

\* The run of the driver is over.
Ended == pc \in {"returned", "raised"}

\* The provider's answer to the call of this step, when the step is a call.
IsCallStep == Len(responses') = Len(responses) + 1
NewResponse == responses'[Len(responses')]

\* C2: in both Moralis cursor drivers, for every sequence of successful
\* responses of which only the last has an empty cursor, the driver issues
\* one call per response, the first without cursor and call k+1 with the
\* cursor of response k, and returns the in-order concatenation of the
\* result lists of all responses, the last one included.
C2_CursorPagination ==
    ( /\ cls \in CursorClasses /\ Ended
      /\ \A i \in 1..Len(responses) :
            /\ SuccessDict(responses[i])
            /\ (responses[i].body.doc.cursor = "") <=> (i = Len(responses)) )
    => /\ pc = "returned"
       /\ Len(calls) = Len(responses)
       /\ ~calls[1].has_cursor
       /\ \A k \in 1..(Len(calls) - 1) :
             /\ calls[k + 1].has_cursor
             /\ calls[k + 1].cursor = responses[k].body.doc.cursor
       /\ result.data = ConcatPages(responses)

\* C3: in both Tatum offset drivers, for page size 50 and a provider that
\* returns k non-empty pages and then an empty page, the driver issues k+1
\* calls with the offsets 0, 50, ..., 50*k in that order and returns the
\* in-order concatenation of the k non-empty pages.
C3_OffsetPagination ==
    ( /\ cls \in OffsetClasses /\ Ended
      /\ \A i \in 1..Len(responses) :
            /\ ListPage(responses[i])
            /\ (responses[i].body.doc.items = <<>>) <=> (i = Len(responses)) )
    => /\ pc = "returned"
       /\ Len(calls) = Len(responses)
       /\ \A i \in 1..Len(calls) : calls[i].offset = NumItemsPerPage * (i - 1)
       /\ result.data = ConcatPages(responses)

\* The TatumPkg driver, whose caller passes offset 200, got two non-empty
\* pages and an empty one, called with the offsets 0, 50 and 100 and
\* returned the three records of the two pages.
C3_Witness ==
    /\ cls = TatumPkg /\ pc = "returned"
    /\ Len(responses) = 3
    /\ \A i \in 1..3 : ListPage(responses[i])
    /\ Len(responses[1].body.doc.items) = 2
    /\ Len(responses[2].body.doc.items) = 1
    /\ responses[3].body.doc.items = <<>>
    /\ calls[3].offset = 2 * NumItemsPerPage
    /\ Len(result.data) = 3

\* C4: when a call of a pagination loop ends in a transport failure, on the
\* first page or a later one, the loop ends and the driver (cursor and
\* offset) returns the records accumulated from the earlier pages; it does
\* not raise.
C4_TransportFailurePartialResult ==
    [][(IsCallStep /\ NewResponse.kind = "exception")
          => (/\ pc' = "returned"
              /\ result'.kind = "returned"
              /\ result'.data = full_data_set)]_vars

\* C5: in the cursor driver a response that fails to decode, or a decoded
\* response without the cursor field, ends the loop and the driver returns
\* what was accumulated so far (with or without the records of that last
\* response).
C5_UndecodableOrNoCursorStops ==
    [][(/\ IsCallStep /\ cls \in CursorClasses
        /\ NewResponse.kind = "response" /\ NewResponse.body.raw # ""
        /\ \/ ~NewResponse.body.valid_json
           \/ /\ NewResponse.body.doc.kind = "dict"
              /\ "cursor" \notin NewResponse.body.doc.keys)
          => (/\ pc' = "returned"
              /\ result'.kind = "returned"
              /\ result'.data \in {full_data_set,
                                   full_data_set \o NewResponse.body.doc.items})]_vars

(* ---------------------------- C6 .. C10 -------------------------------- *)

ValidCallTypes == {"get", "post", "put", "delete"}

\* The last call sent a request (its call type was accepted).
RequestSent == lastcall.kind = "call" /\ \E i \in DOMAIN lastcall.events :
                                            lastcall.events[i] = "request"

\* The last call sent a request and a response with a non-empty body arrived.
BodyArrived ==
    RequestSent /\ lastcall.net.kind = "response" /\ lastcall.net.body.raw # ""

\* C6: in every API class, a transport-level failure raised by the network
\* operation leaves __make_one_api_call as a returned absent payload: no
\* exception raised by the request leaves the method.
C6_TransportFailureReturnsNone ==
    (RequestSent /\ lastcall.net.kind = "exception")
        => (lastcall.raised = "" /\ lastcall.ret = PyNone)

\* A request of the class without a Timer failed in transport, was logged
\* and the call returned None.
C6_Witness ==
    /\ RequestSent /\ lastcall.net.kind = "exception"
    /\ cls = TatumPkg
    /\ lastcall.logs # <<>> /\ lastcall.ret = PyNone /\ lastcall.raised = ""

\* C7: every network call of every API class, the first one after
\* construction included, is immediately preceded by the session Timer's
\* wait_until_allowed(include_reset=True).
C7_EveryCallGated ==
    lastcall.kind = "call" =>
        \A i \in DOMAIN lastcall.events :
            lastcall.events[i] = "request" =>
                (i > 1 /\ lastcall.events[i - 1] = "wait_until_allowed")

\* C8: in both Tatum executors a non-empty body typed application/json
\* decodes to the object it encodes, one typed text/plain yields the raw
\* body unchanged and one of any other content type yields no payload.
C8_ContentTypeDecode ==
    (BodyArrived /\ cls \in {Tatum, TatumPkg}) =>
        /\ (lastcall.net.ctype \in JsonTypes /\ lastcall.net.body.valid_json)
              => (lastcall.raised = "" /\ lastcall.ret = lastcall.net.body.doc)
        /\ lastcall.net.ctype \in TextTypes
              => (lastcall.raised = "" /\ lastcall.ret = PyBytes(lastcall.net.body.raw))
        /\ lastcall.net.ctype \in OtherTypes
              => (lastcall.raised = "" /\ lastcall.ret = PyNone)

\* C9: in every executor a body that is present but does not parse as its
\* declared JSON content type makes __make_one_api_call return an absent
\* payload, and nothing is raised out of the executor.
C9_UndecodableJsonReturnsNone ==
    (BodyArrived /\ lastcall.net.ctype \in JsonTypes
                 /\ ~lastcall.net.body.valid_json)
        => (lastcall.raised = "" /\ lastcall.ret = PyNone)

\* C10: a call whose call type is not get/post/put/delete returns before
\* the Timer is waited on or reset and before any request: the Timer, its
\* last-call timestamp and the clock are as before, and nothing was sent.
C10_InvalidCallTypeNoSlot ==
    [][(lastcall' # lastcall /\ lastcall'.call_type \notin ValidCallTypes)
          => (/\ timer' = timer
              /\ now' = now
              /\ lastcall'.events = <<>>
              /\ lastcall'.ret = PyNone /\ lastcall'.raised = "")]_vars

\* A call of type "patch" was refused on a session whose Timer a gated call
\* would have reset: the clock has moved on since the Timer's timestamp,
\* which is still the one of the construction.
C10_Witness ==
    /\ lastcall.kind = "call" /\ lastcall.call_type = "patch"
    /\ lastcall.events = <<>> /\ lastcall.logs # <<>>
    /\ HasTimer(cls)
    /\ timer.start_time = ClockStart /\ now >= ClockStart + timer.limit_as_decimal

(* ---------------------------- C11, C12 --------------------------------- *)

\* What this instance's __make_one_api_call gives its caller for a valid
\* call type when the request fails in transport or the body is empty.
FailedOrEmptyOutcomes ==
    { <<r.ret, r.raised>> :
        r \in { Make_one_api_call(cls, "get", net, timer, now, 0) :
                  net \in {TransportError}
                          \cup {Response(EmptyBody, ct) : ct \in ContentTypes} } }

\* C11: what the caller of __make_one_api_call receives for a call type
\* that is not supported is an error that differs from what it receives
\* for a failed call and for a call with an empty body.
C11_InvalidCallTypeSurfaced ==
    (lastcall.kind = "call" /\ lastcall.call_type \notin ValidCallTypes)
        => <<lastcall.ret, lastcall.raised>> \notin FailedOrEmptyOutcomes

\* C12: Timer(rate_limit) with a rate that is zero or negative is refused
\* at construction: it raises, no Timer with such a rate is built, and
\* wait_until_allowed is never called on one.
C12_NonPositiveRateRefused ==
    (construction.state # "none" /\ construction.rate_limit <= 0)
        => (construction.state = "raised" /\ lastwait.kind = "none")

(* ---------------------------- C13 .. C17 ------------------------------- *)

\* The items of a list.
Items(l) == {l[i] : i \in DOMAIN l}

\* The bulk run is past its loop.
LoopOver == bulk.pc \in {"convert", "returned", "exited"}

\* Pass p of the loop is over.
PassOver(p) ==
    \/ LoopOver
    \/ bulk.pc \in {"for", "pass_end"} /\ bulk.attempt_number > p
    \/ bulk.pc = "pass_end" /\ bulk.attempt_number = p

\* C13: pass 1 of get_many_nfts_properties attempts every item of the
\* input, in order; at most 3 passes are run and a pass attempts an item at
\* most once, so every item is attempted at least once and at most 3
\* times; a pass is only run on a retry set that is not empty, so the loop
\* ends as soon as it is empty.
C13_PassStructure ==
    /\ \A i \in DOMAIN attempts :
          /\ attempts[i].pass \in 1..MaxAttempts
          /\ i <= Len(bulk.input) =>
                (attempts[i].pass = 1 /\ attempts[i].item = bulk.input[i])
          /\ \A j \in DOMAIN attempts :
                (i # j /\ attempts[i].item = attempts[j].item)
                    => attempts[i].pass # attempts[j].pass
    /\ PassOver(1) => Len(attempts) >= Len(bulk.input)
    /\ bulk.pc \in {"for", "pass_end"} =>
          (bulk.token_ids # <<>> /\ bulk.attempt_number <= MaxAttempts)
    /\ LoopOver =>
          /\ bulk.attempt_number <= MaxAttempts + 1
          /\ bulk.list_for_success_tracking = <<>>
                \/ bulk.attempt_number = MaxAttempts + 1
          /\ \A p \in 1..(bulk.attempt_number - 1) :
                \E i \in DOMAIN attempts : attempts[i].pass = p

\* A run on the largest input ended after two passes: the retry set was
\* empty before the third, an item that raised in pass 1 succeeded in pass
\* 2 and another item was attempted once only.
C13_Witness ==
    /\ bulk.pc = "returned"
    /\ Len(bulk.input) = MaxItems
    /\ bulk.attempt_number = MaxAttempts
    /\ bulk.list_for_success_tracking = <<>>
    /\ \E i, j \in DOMAIN attempts :
          /\ attempts[i].item = attempts[j].item
          /\ attempts[i].pass = 1 /\ attempts[i].outcome = "raised"
          /\ attempts[j].pass = 2 /\ attempts[j].outcome = "ok"
    /\ Len(attempts) = MaxItems + 1

\* C14: an item whose fetch raised or gave nothing (the page could not be
\* loaded) stays in the retry set and is attempted by the next pass; an
\* item that succeeded is out of the retry set and never attempted again.
C14_FailedItemsRetried ==
    \A i \in DOMAIN attempts :
       /\ attempts[i].outcome # "ok" =>
             /\ (bulk.pc \in {"for", "pass_end"}
                    /\ attempts[i].pass = bulk.attempt_number)
                  => attempts[i].item \in Items(bulk.list_for_success_tracking)
             /\ (attempts[i].pass < MaxAttempts /\ PassOver(attempts[i].pass + 1))
                  => \E j \in DOMAIN attempts :
                        /\ attempts[j].item = attempts[i].item
                        /\ attempts[j].pass = attempts[i].pass + 1
       /\ attempts[i].outcome = "ok" =>
             /\ attempts[i].item \notin Items(bulk.list_for_success_tracking)
             /\ \A j \in DOMAIN attempts :
                   j > i => attempts[j].item # attempts[i].item

\* The failure pattern lets the item succeed on a pass numbered at most 3:
\* there is such a pass on which no attempt of the item failed.
SucceedsByLastPass(item) ==
    \E p \in 1..MaxAttempts :
       \A i \in DOMAIN attempts :
          (attempts[i].item = item /\ attempts[i].pass = p)
              => attempts[i].outcome = "ok"

\* C15: when every item of the input succeeds on some pass numbered at
\* most 3, what get_many_nfts_properties returns has every input item
\* exactly once and nothing else, and no item is left in the retry set.
C15_RetryConvergence ==
    (bulk.pc = "returned" /\ \A item \in Items(bulk.input) : SucceedsByLastPass(item))
        => /\ Len(bulk.returned) = Len(bulk.input)
           /\ \A item \in Items(bulk.input) :
                 \E i \in DOMAIN bulk.returned :
                    bulk.returned[i] = DictRow(item)
           /\ bulk.list_for_success_tracking = <<>>

\* C16: the items that still fail after the last pass are reported to the
\* caller: what get_many_nfts_properties returns names each of them.
C16_PermanentFailuresReported ==
    bulk.pc = "returned" =>
        \A item \in Items(bulk.list_for_success_tracking) :
           \E i \in DOMAIN bulk.returned : bulk.returned[i].token_id = item

\* C17: whenever get_many_nfts_properties is left, by its return or by
\* exit(0) after the dump to disk, close_driver has been called on the
\* browser session.
C17_SessionReleasedOnExit ==
    bulk.pc \in {"returned", "exited"} => browser = "closed"

(* ---------------------------- C18 .. C20 ------------------------------- *)

\* The count c is at a multiple of the step, or the first count past one.
AtOrJustPastMultiple(tr, c) ==
    \E m \in 0..(100 \div tr.every_x_percent) :
       \/ c * 100 = m * tr.every_x_percent * tr.max_loop_number
       \/ /\ c * 100 > m * tr.every_x_percent * tr.max_loop_number
          /\ (c - 1) * 100 <= m * tr.every_x_percent * tr.max_loop_number

\* C18: a PercentTracker with step s percent and total T (of at least one
\* count per step) that is fed the counts 1, 2, ..., T in order logs the
\* progress exactly 100/s times (10 times for s = 10 and T = 100), each
\* time at a multiple of s percent or at the first count past one.
C18_ThresholdEmission ==
    (/\ percent_tracker.exists
     /\ percent_tracker.max_loop_number * percent_tracker.every_x_percent >= 100
     /\ progress.fed >= 1)
        => /\ progress.last.emitted
                => AtOrJustPastMultiple(percent_tracker, progress.last.counter)
           /\ progress.fed = percent_tracker.max_loop_number
                => progress.emitted * percent_tracker.every_x_percent = 100

\* C19: no update_progress call lowers the threshold
\* (float_percent_counter), whatever count it is called with.
C19_ThresholdMonotone ==
    [][percent_tracker'.percent_counter >= percent_tracker.percent_counter]_vars

\* update_progress was called with a count below an earlier one (below a
\* threshold that an earlier count had already passed) and the threshold
\* stayed where it was.
C19_Witness ==
    /\ progress.last.kind = "update"
    /\ progress.last.before >= 2 * percent_tracker.every_x_percent
    /\ progress.last.counter * 100
          < (progress.last.before - percent_tracker.every_x_percent)
                * percent_tracker.max_loop_number
    /\ percent_tracker.percent_counter = progress.last.before

\* C20: once the threshold has been advanced, an update_progress call
\* whose fraction is not above the current threshold logs nothing and
\* leaves the tracker as it is.
C20_NoReReport ==
    [][(/\ progress' # progress
        /\ percent_tracker.max_loop_number >= 1
        /\ percent_tracker.percent_counter > 0
        /\ ~Progress_above(percent_tracker, progress'.last.counter))
          => (/\ percent_tracker' = percent_tracker
              /\ ~progress'.last.emitted
              /\ progress'.emitted = progress.emitted)]_vars

\* After the threshold was advanced, update_progress was called with the
\* count whose fraction is exactly the threshold, and nothing was logged.
C20_Witness ==
    /\ progress.last.kind = "update"
    /\ percent_tracker.max_loop_number >= 1
    /\ progress.last.before >= percent_tracker.every_x_percent
    /\ progress.last.counter * 100
          = progress.last.before * percent_tracker.max_loop_number
    /\ ~progress.last.emitted
    /\ percent_tracker.percent_counter = progress.last.before

(* ---------------------------- C21 .. C22 ------------------------------- *)

\* elapsed * total / processed - elapsed, as it is displayed: seconds (in
\* tenths) below SecondsPerMinute seconds, whole minutes otherwise.
DisplayedEta(elapsed, total, processed) ==
    LET num == elapsed * total - elapsed * processed
        den == TicksPerSecond * processed
    IN IF num < SecondsPerMinute * den
       THEN [shown |-> TRUE, unit |-> "seconds",
             value |-> (20 * num + den) \div (2 * den)]
       ELSE [shown |-> TRUE, unit |-> "minutes",
             value |-> num \div (SecondsPerMinute * den)]

\* C21: every update_progress call that logs the progress, is asked for the
\* estimate of the time remaining and has a count above 0 logs the estimate
\* elapsed * total / count - elapsed, in seconds below 60 and in whole
\* minutes otherwise.
C21_EtaOnEveryEmission ==
    (/\ progress.last.kind = "update"
     /\ progress.last.emitted
     /\ progress.last.show
     /\ progress.last.counter > 0)
        => progress.last.eta = DisplayedEta(progress.last.elapsed,
                                            percent_tracker.max_loop_number,
                                            progress.last.counter)

\* C22: no update_progress call fails with a division by zero, whatever
\* total the tracker was built with; a call with the count 0 logs no
\* estimate.
C22_NoDivisionByZero ==
    progress.last.kind = "update"
        => /\ progress.last.raised = ""
           /\ progress.last.counter = 0 => ~progress.last.eta.shown

(* ---------------------------- C23 .. C24 ------------------------------- *)

\* C23: when get_current_ethereum_block_number(testnet) of Tatum returns,
\* however its call went, the headers of the session are the default ones
\* of the session and have no x-testnet-type among them; called without a
\* testnet it leaves the headers as they were.
C23_TestnetHeaderReverted ==
    (/\ lastop.op = "get_current_ethereum_block_number"
     /\ lastop.state = "returned")
        => /\ lastop.testnet # ""
                => /\ headers = Class_headers(Tatum)
                   /\ \A x \in headers : x[1] # "x-testnet-type"
           /\ lastop.testnet = ""
                => headers = lastop.before /\ lastop.sent = lastop.before

\* A call with a testnet whose request, sent with the x-testnet-type
\* header, failed in transport has returned.
C23_Witness ==
    /\ lastop.op = "get_current_ethereum_block_number"
    /\ lastop.state = "returned"
    /\ lastop.testnet # ""
    /\ lastop.failure = "transport"
    /\ <<"x-testnet-type", lastop.testnet>> \in lastop.sent
    /\ lastop.before = Class_headers(Tatum)

\* C24: a method of Moralis whose network call failed in transport or got
\* a body that cannot be decoded returns to its caller; no exception leaves
\* it.
C24_FailuresNeverRaise ==
    (/\ lastop.op \in SingleOps \cup ManyOps
     /\ lastop.failure \in {"transport", "undecodable"})
        => lastop.state # "raised"

(* ---------------------------- C25 .. C28 ------------------------------- *)

\* The cursors of the responses that have one are pairwise distinct.
DistinctCursors ==
    \A i, j \in 1..Len(responses) :
        (/\ i # j
         /\ responses[i].body.doc.cursor # ""
         /\ responses[j].body.doc.cursor # "")
            => responses[i].body.doc.cursor # responses[j].body.doc.cursor

\* C25: in one run of an offset driver the offsets of successive calls are
\* strictly increasing; in one run of a cursor driver every call after the
\* first carries the cursor of the response just before it and, when the
\* provider's cursors are pairwise distinct, no two calls of the run are
\* the same request.
C25_NoPageReissued ==
    /\ cls \in OffsetClasses
          => \A k \in 1..(Len(calls) - 1) : calls[k + 1].offset > calls[k].offset
    /\ cls \in CursorClasses
          => /\ \A k \in 1..(Len(calls) - 1) :
                   /\ calls[k + 1].has_cursor
                   /\ calls[k + 1].cursor = responses[k].body.doc.cursor
             /\ DistinctCursors
                   => \A i, j \in 1..Len(calls) : i # j => calls[i] # calls[j]

\* A cursor driver made three calls to a provider with distinct cursors:
\* without cursor, with the first and with the second cursor.
C25_Witness ==
    /\ cls \in CursorClasses
    /\ Len(calls) = 3
    /\ DistinctCursors
    /\ ~calls[1].has_cursor
    /\ calls[2].cursor = responses[1].body.doc.cursor
    /\ calls[3].cursor = responses[2].body.doc.cursor
    /\ calls[3].cursor # calls[2].cursor

C27_OffsetAdvancesByPageSize ==
    cls \in OffsetClasses
        => \A k \in 1..(Len(calls) - 1) :
              calls[k + 1].offset = calls[k].offset + calls[k].pageSize

\* C28: every call of a cursor-paginated run carries the limit the instance
\* was constructed with as page_size.
C28_LimitIsConfiguredPageSize ==
    cls \in CursorClasses
        => \A k \in 1..Len(calls) : calls[k].limit = page_size

(* ---------------------------- C29 .. C30 ------------------------------- *)

\* C29: wait_until_allowed sleeps exactly the interval minus the time
\* elapsed since the last reset when that time is below the interval and
\* does not sleep when it is the interval or more; it returns no earlier
\* than one interval after the last reset.
C29_WaitSleepsTheRemainder ==
    lastwait.kind = "wait"
        => LET ellapsed_time == lastwait.at - lastwait.before
           IN /\ ellapsed_time < timer.limit_as_decimal
                    => lastwait.slept = timer.limit_as_decimal - ellapsed_time
              /\ ellapsed_time >= timer.limit_as_decimal => lastwait.slept = 0
              /\ lastwait.at + lastwait.slept - lastwait.before
                    >= timer.limit_as_decimal

\* A wait that found part of the interval elapsed slept the rest of it.
C29_Witness ==
    /\ lastwait.kind = "wait"
    /\ lastwait.at > lastwait.before
    /\ lastwait.slept > 0
    /\ lastwait.slept < timer.limit_as_decimal

\* C30: reset() sets start_time to the clock; wait_until_allowed(True) sets
\* it to the clock at which the wait is over, after the sleep;
\* wait_until_allowed(False) leaves it alone; none of them changes the
\* interval.
C30_LastCallTimestamp ==
    [][ /\ timer'.limit_as_decimal = timer.limit_as_decimal
        /\ permits' # permits
              => /\ lastwait'.kind = "wait" /\ lastwait'.include_reset
                 /\ timer'.start_time = now'
                 /\ now' >= now + lastwait'.slept
        /\ (permits' = permits /\ now' = now /\ lastwait'.kind = "reset")
              => timer'.start_time = now
        /\ (permits' = permits /\ lastwait'.kind = "wait")
              => timer'.start_time = timer.start_time ]_vars

\* A wait with reset slept, returned late, and start_time is the clock at
\* its return, past the end of the sleep.
C30_Witness ==
    /\ lastwait.kind = "wait"
    /\ lastwait.include_reset
    /\ lastwait.slept > 0
    /\ timer.start_time = now
    /\ now > lastwait.at + lastwait.slept

(* ---------------------------- C31 .. C32 ------------------------------- *)

\* The outcome of the last call, by the branch of __make_one_api_call that
\* ended it: the except branch of the request, the except branch of the
\* decoding, or neither.
Outcome ==
    IF lastcall.net.kind = "exception" THEN "transport failure"
    ELSE IF lastcall.net.body.raw # "" /\ ~lastcall.net.body.valid_json
    THEN "decode failure"
    ELSE "success"

\* C31: in the executors of src/class_api_interactions_moralis.py and
\* src/class_api_interactions_tatum.py the payload a call returns is
\* present (not None) exactly when the call succeeded, so that the caller
\* can tell a successful call from a failed one.
C31_PayloadIffSuccess ==
    (RequestSent /\ cls \in {Moralis, Tatum})
        => /\ lastcall.raised = ""
           /\ (lastcall.ret # PyNone) <=> (Outcome = "success")

\* C32: a response with an empty body makes __make_one_api_call return
\* None with no parse attempted: nothing is raised and no warning or error
\* is logged, whatever the content type of the response.
C32_EmptyBodyIsAbsentPayload ==
    (RequestSent /\ lastcall.net.kind = "response" /\ lastcall.net.body.raw = "")
        => /\ lastcall.raised = ""
           /\ lastcall.ret = PyNone
           /\ lastcall.logs = <<>>

\* The executor that reads the Content-Type header got an empty body in a
\* response without that header and returned None.
C32_Witness ==
    /\ RequestSent
    /\ cls = TatumPkg
    /\ lastcall.net = Response(EmptyBody, NoHeader)
    /\ lastcall.ret = PyNone /\ lastcall.raised = "" /\ lastcall.logs = <<>>

(* -------------------------------- C33 ---------------------------------- *)

\* The response ends the pagination of class c by itself: an empty cursor
\* in a successful response of a cursor provider, an empty page of an
\* offset provider.
TerminatingResponse(c, net) ==
    \/ c \in CursorClasses /\ SuccessDict(net) /\ net.body.doc.cursor = ""
    \/ c \in OffsetClasses /\ ListPage(net) /\ net.body.doc.items = <<>>

\* C33: the iteration of a pagination loop whose call failed or got a
\* terminating response is the last one of the run: the loop is left in
\* that iteration, and a run that is over makes no further call.
C33_LoopEndsAtFirstTerminatingOrFailed ==
    [][ /\ (IsCallStep /\ \/ Failure(NewResponse) # ""
                          \/ TerminatingResponse(cls, NewResponse))
              => pc' \in {"returned", "raised"}
        /\ pc \in {"returned", "raised"}
              => (calls' = calls /\ pc' = pc) ]_vars

\* The offset driver got two pages with records and then a transport
\* failure, and its run is over after these three calls.
C33_Witness ==
    /\ cls = Tatum
    /\ Len(calls) = 3
    /\ Failure(responses[3]) = "transport"
    /\ Len(full_data_set) = 2 * MaxPage
    /\ pc \in {"returned", "raised"}

(* -------------------------------- C35 ---------------------------------- *)

\* The attempts whose result was appended to list_results, in order.
Booked == SelectSeq(attempts, LAMBDA a : a.outcome # "raised")

Range(f) == {f[i] : i \in DOMAIN f}

\* The bookkeeping of get_many_nfts_properties in its locals.
Bookkeeping ==
    LET done      == {Booked[i].item : i \in DOMAIN Booked}
        remaining == Range(bulk.list_for_success_tracking)
    IN /\ Len(bulk.list_results) = Len(Booked)
       /\ \A i \in DOMAIN Booked :
             bulk.list_results[i] \in {DictRow(Booked[i].item), NoneRow}
       /\ done \cap remaining = {}
       /\ done \cup remaining = Range(bulk.input)
       /\ bulk.counter = Len(bulk.list_results)
       /\ bulk.counter <= Len(bulk.input)

\* C35: at every point of get_many_nfts_properties on pairwise distinct
\* items, the items whose entry was appended to list_results and the items
\* left in list_for_success_tracking are disjoint and together the input;
\* counter is the number of entries of list_results, never decreases and
\* never exceeds the number of items of the input.
C35_BulkBookkeeping ==
    [][ bulk'.pc \notin {"idle", "exited"}
          => /\ Bookkeeping'
             /\ bulk'.counter >= bulk.counter ]_vars

\* In the second pass over three items, one has its entry and two are left
\* to retry after their fetch raised.
C35_Witness ==
    /\ bulk.pc = "for"
    /\ bulk.attempt_number = 2
    /\ Len(bulk.input) = 3
    /\ Len(bulk.list_results) = 1
    /\ Len(bulk.list_for_success_tracking) = 2
    /\ \E i \in DOMAIN attempts : attempts[i].outcome = "raised"

(* -------------------------------- C34 ---------------------------------- *)

\* C34: a batch method called with a delay d > 0 between the requests
\* waits d after every item it attempted, whether the attempt succeeded or
\* failed.
C34_DelayAfterEveryAttempt ==
    (/\ lastop.op \in ManyOps
     /\ lastop.delay > 0
     /\ lastop.state = "raised" \/ lastop.counter > 0)
        => lastop.waited = lastop.delay

(* ---------------------------- C36 .. C37 ------------------------------- *)

\* C36: when an update_progress call has logged the progress, the
\* threshold it leaves is at least the fraction it logged, so that a call
\* with the same count right after it logs nothing.
C36_ThresholdCatchesUp ==
    (progress.last.kind = "update" /\ progress.last.emitted)
        => ~Progress_above(percent_tracker, progress.last.counter)

\* C37: every update_progress call that logs raises the threshold by
\* exactly one step, and over any sequence of calls with counts from 0 to
\* the total the progress is logged at most ceil(100 / step) times.
C37_EmissionsBounded ==
    [][ /\ (progress' # progress /\ progress'.last.emitted)
              => percent_tracker'.percent_counter
                    = percent_tracker.percent_counter
                        + percent_tracker.every_x_percent
        /\ percent_tracker.max_loop_number >= 1
              => progress'.emitted * percent_tracker.every_x_percent
                    < 100 + percent_tracker.every_x_percent ]_vars

(* -------------------------------- C38 ---------------------------------- *)

\* C38: Opensea.get_many_nft_tokens_metadata makes one call per identifier
\* in the order of the input and collects one entry per identifier in that
\* order, None for a call that failed; the counter passed to the tracker
\* after item i is i; no failed call makes the method raise or stop early.
C38_OneEntryPerIdentifier ==
    lastop.op = "get_many_nft_tokens_metadata"
        => /\ lastop.issued = [i \in 1..Len(lastop.issued) |-> i]
           /\ Len(lastop.entries) = Len(lastop.issued)
           /\ \A i \in DOMAIN lastop.entries :
                 lastop.entries[i] \in {DictRow(i), NoneRow}
           /\ lastop.counter = Len(lastop.issued)
           /\ (lastop.failure # "" /\ lastop.state \in {"running", "convert"})
                 => lastop.entries[Len(lastop.entries)] = NoneRow
           /\ lastop.state = "returned" => Len(lastop.entries) = lastop.n
           /\ lastop.state # "raised"

(* ------------------------------- C39 ----------------------------------- *)

\* C39: refresh_many_nfts attempts every input item exactly once, in input
\* order, whatever the attempts run into: the attempts made so far are the
\* first items of the input, one attempt each and none a retry; an
\* exception of refresh_an_nft never leaves the method, so the loop is
\* running while items are left and the method returns after exactly one
\* attempt on each item.
C39_EveryItemAttemptedOnce ==
    lastop.op = "refresh_many_nfts" =>
        /\ Len(attempts) <= lastop.n
        /\ \A i \in 1..Len(attempts) :
              /\ attempts[i].item = TokenIds(lastop.n)[i]
              /\ attempts[i].pass = 1
        /\ lastop.issued = [i \in 1..Len(attempts) |-> attempts[i].item]
        /\ lastop.raised = ""
        /\ lastop.state \in {"running", "returned"}
        /\ lastop.state = "returned" <=> Len(attempts) = lastop.n

\* A run over three items that returned after the first attempt raised, the
\* second did not load its page and the third clicked the button.
C39_Witness ==
    /\ lastop.op = "refresh_many_nfts"
    /\ lastop.state = "returned"
    /\ lastop.n = MaxItems
    /\ Len(attempts) = MaxItems
    /\ attempts[1].outcome = "raised"
    /\ attempts[2].outcome = "not_loaded"
    /\ attempts[MaxItems].outcome = "ok"

====
